---- MODULE Spec2Model ----
(***************************************************************************)
(* Model of the OpenVDS MCP server: the tool server's tools/call handler   *)
(* (openvds_mcp_server.py), the bulk router (bulk_operation_router.py),    *)
(* the agent manager with its background coroutines (agent_manager.py),    *)
(* the search path of the VDS client with its query cache (vds_client.py,  *)
(* query_cache.py) and the integrity engine (data_integrity.py).           *)
(*                                                                         *)
(* Texts (instructions, serialized arguments) are sequences of tokens: a   *)
(* word, or a run of digits with an optional letter suffix ("1000th").     *)
(* The regular expressions of the source are evaluated on these tokens.    *)
(* A Python dict is a TLA+ record; `"k" \in DOMAIN d` is `"k" in d`.       *)
(***************************************************************************)
EXTENDS Integers, Sequences, FiniteSets, TLC

VARIABLES
    sessions,           \* SeismicAgentManager.sessions: session id -> AgentSession
    active_session_id,  \* SeismicAgentManager.active_session_id (0 is None)
    workers,            \* background coroutines created with asyncio.create_task
    backend,            \* VDSClient after initialize: "es", "scan" or "demo"
                        \* ("none" before)
    search_cache,       \* QueryCache.search_cache (LRUCache)
    now,                \* time.time(), in units of TimeStep seconds
    lastCall,           \* the last request served: name, arguments, outcome of
                        \* the volume access, time and response
    executed,           \* history: per session, the tasks started so far, in order
    vds_handles,        \* VDSClient.vds_handles: survey id -> cached handle (0 is
                        \* no entry; k is the handle of the k-th successful open)
    startup,            \* VDSClient.initialize: its position and what it found
    chat,               \* the UI backend: event_generator of one streaming chat
                        \* request (chat.py)
    mcp                 \* the UI backend: the shared MCPClient, its server
                        \* process and its callers (mcp_client.py)

vars == <<sessions, active_session_id, workers, backend, search_cache, now,
          lastCall, executed, vds_handles, startup, chat, mcp>>

----------------------------------------------------------------------------
(* Bounds of the model *)

MaxSessions == 2
MaxWorkers == 2
MaxExecuted == 2
MaxTime == 2
MaxLookups == 3

----------------------------------------------------------------------------
(* Tokens and texts *)

W(s) == [k |-> "w", s |-> s, v |-> 0, suf |-> FALSE]
N(v) == [k |-> "n", s |-> "", v |-> v, suf |-> FALSE]
Nth(v) == [k |-> "n", s |-> "", v |-> v, suf |-> TRUE]

IsNum(t) == t.k = "n"
IsWord(t, ws) == t.k = "w" /\ t.s \in ws

\* the words of the vocabulary that are, or contain, a keyword of the source
InlineWords == {"inline", "inlines"}
CrosslineWords == {"crossline", "crosslines"}
InlineTexts == InlineWords \cup {"inline_number"}
CrosslineTexts == CrosslineWords \cup {"crossline_number"}
TimesliceWords == {"timeslice", "timeslices"}
DepthWords == {"depth", "sample", "time", "timeslice", "timeslices"}

HasWord(text, ws) == \E i \in 1..Len(text) : IsWord(text[i], ws)

\* re.findall(r'\d+', text): every run of digits, in order
RECURSIVE Numbers(_)
Numbers(text) ==
    IF text = <<>> THEN <<>>
    ELSE IF IsNum(Head(text)) THEN <<Head(text).v>> \o Numbers(Tail(text))
    ELSE Numbers(Tail(text))

\* list.remove(x) guarded by `if x in list`: drops the first occurrence
RECURSIVE RemoveFirst(_, _)
RemoveFirst(seq, x) ==
    IF seq = <<>> THEN <<>>
    ELSE IF Head(seq) = x THEN Tail(seq)
    ELSE <<Head(seq)>> \o RemoveFirst(Tail(seq), x)

\* (mutation: range(start, end, spacing), the end is left out)
RangeExcl(start, end, spacing) ==
    IF end <= start THEN <<>>
    ELSE [j \in 1..((end - 1 - start) \div spacing + 1) |-> start + (j - 1) * spacing]

\* range(start, end + 1, spacing) for spacing >= 1
RangeIncl(start, end, spacing) ==
    IF end < start THEN <<>>
    ELSE [j \in 1..((end - start) \div spacing + 1) |-> start + (j - 1) * spacing]

\* (mutation: the candidates are not compared with the range of the axis)
FilterSeqKeepsAll(seq, lo, hi) == seq

FilterSeq(seq, lo, hi) == SelectSeq(seq, LAMBDA x : x >= lo /\ x <= hi)

----------------------------------------------------------------------------
(* The catalog: VDSClient.available_surveys after initialize *)

Backends == {"es", "scan", "demo"}

\* the surveys on the mount / in the index
RealSurveys ==
    [id \in {"sepia", "santos"} |->
        IF id = "sepia"
        THEN [id |-> "sepia", terms |-> {"brazil", "sepia"},
              inline_range |-> <<51000, 59001>>,
              crossline_range |-> <<8001, 8501>>,
              sample_range |-> <<4500, 8500>>,
              n_inlines |-> 8002, n_crosslines |-> 501, n_samples |-> 1001,
              values |-> <<-3, 0, 1, 10>>]
        ELSE [id |-> "santos", terms |-> {"brazil", "test"},
              inline_range |-> <<100, 119>>,
              crossline_range |-> <<200, 209>>,
              sample_range |-> <<0, 36>>,
              n_inlines |-> 20, n_crosslines |-> 10, n_samples |-> 10,
              values |-> <<2, 4, 6, 8>>]]

\* _setup_demo_data
DemoSurveys ==
    [id \in {"demo_gulf_mexico_2023", "demo_north_sea_2024", "demo_permian_basin_2022"} |->
        IF id = "demo_gulf_mexico_2023"
        THEN [id |-> id, terms |-> {"gulf of mexico", "demo"},
              inline_range |-> <<1000, 2500>>,
              crossline_range |-> <<500, 1800>>,
              sample_range |-> <<0, 4000>>,
              n_inlines |-> 0, n_crosslines |-> 0, n_samples |-> 0,
              values |-> <<>>]
        ELSE IF id = "demo_north_sea_2024"
        THEN [id |-> id, terms |-> {"north sea", "demo"},
              inline_range |-> <<800, 1900>>,
              crossline_range |-> <<400, 1500>>,
              sample_range |-> <<0, 3500>>,
              n_inlines |-> 0, n_crosslines |-> 0, n_samples |-> 0,
              values |-> <<>>]
        ELSE [id |-> id, terms |-> {"permian basin", "demo"},
              inline_range |-> <<1200, 3000>>,
              crossline_range |-> <<600, 2200>>,
              sample_range |-> <<0, 5000>>,
              n_inlines |-> 0, n_crosslines |-> 0, n_samples |-> 0,
              values |-> <<>>]]

available_surveys ==
    IF backend = "none" THEN [id \in {} |-> [id |-> id]]
    ELSE IF backend = "demo" THEN DemoSurveys
    ELSE RealSurveys

\* VDSClient.get_survey_metadata: the survey dict, or a dict with "error"
get_survey_metadata(survey_id) ==
    IF survey_id \in DOMAIN available_surveys THEN available_surveys[survey_id]
    ELSE [error |-> "Survey not found"]

----------------------------------------------------------------------------
(* BulkOperationRouter *)

SingleExtractionTools ==
    {"extract_inline_image", "extract_crossline_image", "extract_timeslice_image"}

\* re.search(r'every\s+\d+', context_lower)
MatchEveryNth(text) ==
    \E i \in 1..(Len(text) - 1) : IsWord(text[i], {"every"}) /\ IsNum(text[i + 1])

\* re.search(r'(?:from|start.*?at)\s+\d+\s+(?:to|through|until)\s+\d+', ...)
MatchRange(text) ==
    \E i \in 1..(Len(text) - 3) :
        /\ \/ IsWord(text[i], {"from"})
           \/ /\ IsWord(text[i], {"at"})
              /\ \E h \in 1..(i - 1) : IsWord(text[h], {"start", "starting"})
        /\ IsNum(text[i + 1]) /\ ~text[i + 1].suf
        /\ IsWord(text[i + 2], {"to", "through", "until"})
        /\ IsNum(text[i + 3])

\* re.search(r'\b(?:skip|spacing)\b', context_lower)
MatchSpacing(text) == HasWord(text, {"skip", "spacing"})

\* re.search(r'\ball\s+(?:inline|crossline|timeslice)s?\b', context_lower)
MatchAll(text) ==
    \E i \in 1..(Len(text) - 1) :
        /\ IsWord(text[i], {"all"})
        /\ IsWord(text[i + 1], InlineWords \cup CrosslineWords \cup TimesliceWords)

\* len(re.findall(r'\b\d{4,}\b', context)) >= 3
MatchMultiple(text) ==
    Cardinality({i \in 1..Len(text) :
                    IsNum(text[i]) /\ ~text[i].suf /\ text[i].v >= 1000}) >= 3

\* re.search(r'\b(?:multiple|several|various|many)\b', context_lower)
MatchQuantity(text) == HasWord(text, {"multiple", "several", "various", "many"})

\* (mutation: the count of long numbers is not among the patterns)
_detect_extraction_bulk_no_multiple(context) ==
    IF context = <<>> THEN "none"
    ELSE IF MatchEveryNth(context) THEN "every_nth"
    ELSE IF MatchRange(context) THEN "range"
    ELSE IF MatchSpacing(context) THEN "spacing"
    ELSE IF MatchAll(context) THEN "all"
    ELSE IF MatchQuantity(context) THEN "quantity"
    ELSE "none"

\* _detect_extraction_bulk: the detected pattern, "none" when not bulk
_detect_extraction_bulk(context) ==
    IF context = <<>> THEN "none"
    ELSE IF MatchEveryNth(context) THEN "every_nth"
    ELSE IF MatchRange(context) THEN "range"
    ELSE IF MatchSpacing(context) THEN "spacing"
    ELSE IF MatchAll(context) THEN "all"
    ELSE IF MatchMultiple(context) THEN "multiple"
    ELSE IF MatchQuantity(context) THEN "quantity"
    ELSE "none"

\* (mutation: the patterns are looked for whatever the tool is)
detect_bulk_pattern_any_tool(tool_name, arguments, context) ==
    LET pattern == _detect_extraction_bulk(context)
    IN  IF pattern = "none" THEN [is_bulk |-> FALSE]
        ELSE [is_bulk |-> TRUE,
              detected_pattern |-> pattern,
              original_tool |-> tool_name,
              instruction |-> context,
              survey_id |-> arguments.survey_id,
              auto_execute |-> TRUE]

\* detect_bulk_pattern: (is_bulk, routing_info) as a record
detect_bulk_pattern(tool_name, arguments, context) ==
    LET pattern == IF tool_name \in SingleExtractionTools
                   THEN _detect_extraction_bulk(context) ELSE "none"
    IN  IF pattern = "none" THEN [is_bulk |-> FALSE]
        ELSE [is_bulk |-> TRUE,
              detected_pattern |-> pattern,
              original_tool |-> tool_name,
              instruction |-> context,
              survey_id |-> arguments.survey_id,
              auto_execute |-> TRUE]

----------------------------------------------------------------------------
(* SeismicAgentManager._parse_instruction *)

MinOf(S) == CHOOSE x \in S : \A y \in S : x <= y

\* the depth pattern: first keyword, then lazily the first digit run from
\* which the rest of the pattern matches; <<>> when there is no match
DepthCont(text, j) ==
    /\ ~text[j].suf
    /\ \/ j + 1 <= Len(text) /\ IsNum(text[j + 1])
       \/ /\ j + 2 <= Len(text)
          /\ IsWord(text[j + 1], {"to", "through"})
          /\ IsNum(text[j + 2])

DepthMatch(text) ==
    LET kw == {i \in 1..Len(text) : IsWord(text[i], DepthWords)}
    IN  IF kw = {} THEN <<>>
        ELSE LET i0 == MinOf(kw)
                 js == {j \in (i0 + 1)..Len(text) :
                          IsNum(text[j]) /\ (text[j].v >= 10 \/ DepthCont(text, j))}
             IN  IF js = {} THEN <<>>
                 ELSE LET j == MinOf(js)
                      IN  IF DepthCont(text, j)
                          THEN IF IsNum(text[j + 1])
                               THEN <<text[j].v, text[j + 1].v>>
                               ELSE <<text[j].v, text[j + 2].v>>
                          ELSE <<text[j].v \div 10, text[j].v % 10>>

\* the number captured by r'(?:w1|w2)\s+(\d+)', -1 when there is no match
NumberAfter(text, ws) ==
    LET is == {i \in 1..(Len(text) - 1) : IsWord(text[i], ws) /\ IsNum(text[i + 1])}
    IN  IF is = {} THEN -1 ELSE text[MinOf(is) + 1].v

\* r'start\s+at\s+(?:crossline\s+)?(\d+)', -1 when there is no match
StartAt(text) ==
    LET direct(i) == i + 2 <= Len(text) /\ IsNum(text[i + 2])
        named(i) == /\ i + 3 <= Len(text)
                    /\ IsWord(text[i + 2], {"crossline"})
                    /\ IsNum(text[i + 3])
        is == {i \in 1..(Len(text) - 2) :
                  /\ IsWord(text[i], {"start"}) /\ IsWord(text[i + 1], {"at"})
                  /\ (direct(i) \/ named(i))}
    IN  IF is = {} THEN -1
        ELSE LET i == MinOf(is)
             IN  IF direct(i) THEN text[i + 2].v ELSE text[i + 3].v

ExtractionTask(type, number, depth_range, priority) ==
    [type |-> type, number |-> number, depth_range |-> depth_range,
     priority |-> priority, status |-> "pending",
     result |-> [none |-> TRUE], error |-> ""]

\* The parser as a record [ok, tasks]; ok = FALSE is a raised exception
\* (KeyError on an error dict, ValueError of range() with step 0, or the
\* final "Could not parse instruction").
_parse_instruction(survey_id, instruction) ==
    LET survey_info == get_survey_metadata(survey_id)
        known == "error" \notin DOMAIN survey_info
        dm == DepthMatch(instruction)
        numbers == IF dm = <<>> THEN Numbers(instruction)
                   ELSE RemoveFirst(RemoveFirst(Numbers(instruction), dm[1]), dm[2])
        depth == IF dm # <<>> THEN dm
                 ELSE IF known THEN survey_info.sample_range ELSE <<>>
        has_every == HasWord(instruction, {"every"})
        has_skipping == HasWord(instruction, {"skipping"})
        has_inline == HasWord(instruction, InlineTexts)
        has_crossline == HasWord(instruction, CrosslineTexts)
        prio == IF HasWord(instruction, {"priority"}) THEN "high" ELSE "medium"
        mk(type, seq, p) == [j \in 1..Len(seq) |-> ExtractionTask(type, seq[j], depth, p)]
        fail == [ok |-> FALSE, tasks |-> <<>>]
        \* a loop over candidates that reads survey_info[range] in its body
        lines(type, cand, rng, p) ==
            IF cand = <<>> THEN fail
            ELSE IF ~known THEN fail
            ELSE LET kept == FilterSeq(cand, survey_info[rng][1], survey_info[rng][2])
                 IN  IF kept = <<>> THEN fail
                     ELSE [ok |-> TRUE, tasks |-> mk(type, kept, p)]
        ranged(type, start, end, spacing, rng, p) ==
            IF spacing = 0 THEN fail
            ELSE lines(type, RangeIncl(start, end, spacing), rng, p)
    IN  IF dm = <<>> /\ ~known THEN fail
        ELSE IF has_every /\ has_inline /\ Len(numbers) >= 3
        THEN ranged("inline", numbers[2], numbers[3], numbers[1], "inline_range", prio)
        ELSE IF (has_every \/ has_skipping) /\ has_crossline
        THEN LET sm == NumberAfter(instruction, {"every", "skipping"})
                 spacing == IF sm # -1 THEN sm
                            ELSE IF Len(numbers) >= 1 THEN numbers[1] ELSE 100
                 st == StartAt(instruction)
                 em == NumberAfter(instruction, {"through", "to"})
             IN  IF ~known /\ (st = -1 \/ em = -1) /\ Len(numbers) < 2 THEN fail
                 ELSE LET start == IF st # -1 THEN st
                                   ELSE IF Len(numbers) >= 2
                                   THEN (IF numbers[1] # spacing THEN numbers[1]
                                         ELSE numbers[2])
                                   ELSE survey_info.crossline_range[1]
                          end == IF em # -1 THEN em
                                 ELSE IF Len(numbers) >= 2 THEN numbers[Len(numbers)]
                                 ELSE survey_info.crossline_range[2]
                      IN  ranged("crossline", start, end, spacing, "crossline_range", prio)
        ELSE IF has_inline /\ Len(numbers) >= 2
        THEN ranged("inline", numbers[1], numbers[2],
                    IF Len(numbers) > 2 THEN numbers[3] ELSE 1000, "inline_range", prio)
        ELSE IF has_crossline
        THEN lines("crossline", numbers, "crossline_range", "medium")
        ELSE IF has_every \/ has_skipping
        THEN LET spacing == IF numbers # <<>> THEN numbers[1] ELSE 1000
             IN  IF has_inline
                 THEN IF ~known \/ spacing = 0 THEN fail
                      ELSE [ok |-> TRUE,
                            tasks |-> mk("inline",
                                         RangeIncl(survey_info.inline_range[1],
                                                   survey_info.inline_range[2], spacing),
                                         "medium")]
                 ELSE fail
        ELSE fail

----------------------------------------------------------------------------
(* VDSClient: the image extractions the agent and the tool server call *)

\* the outcomes of opening and reading the volume file
IOOutcomes == {"ok", "open_failed", "io_error"}

RangeKey(kind) ==
    IF kind = "inline" THEN "inline_range"
    ELSE IF kind = "crossline" THEN "crossline_range"
    ELSE "sample_range"

\* (mutation: the file is opened whether or not a handle is cached)
_get_vds_handle_uncached(survey_id, io) ==
    IF survey_id \notin DOMAIN available_surveys \/ backend = "demo"
    THEN [handles |-> vds_handles, handle |-> 0, ops |-> <<>>]
    ELSE IF io = "open_failed"
    THEN [handles |-> vds_handles, handle |-> 0, ops |-> <<"open">>]
    ELSE [handles |-> [vds_handles EXCEPT ![survey_id] = @ + 1],
          handle |-> vds_handles[survey_id] + 1, ops |-> <<"open">>]

\* the entry of the cache that holds None
NoneCached == -1

\* _get_vds_handle: the cache afterwards, the handle returned (0 is None) and
\* the calls of openvds.open it made. In the cache 0 is no entry; with
\* "open_failed" openvds.open raises, with "open_none" it returns None.
_get_vds_handle(survey_id, io) ==
    IF survey_id \in DOMAIN vds_handles /\ vds_handles[survey_id] # 0
    THEN [handles |-> vds_handles,
          handle |-> IF vds_handles[survey_id] = NoneCached THEN 0
                     ELSE vds_handles[survey_id],
          ops |-> <<>>]
    ELSE IF survey_id \notin DOMAIN available_surveys \/ backend = "demo"
    THEN [handles |-> vds_handles, handle |-> 0, ops |-> <<>>]
    ELSE IF io = "open_failed"
    THEN [handles |-> vds_handles, handle |-> 0, ops |-> <<"open">>]
    ELSE IF io = "open_none"
    THEN [handles |-> [vds_handles EXCEPT ![survey_id] = NoneCached],
          handle |-> 0, ops |-> <<"open">>]
    ELSE [handles |-> [vds_handles EXCEPT ![survey_id] = @ + 1],
          handle |-> vds_handles[survey_id] + 1, ops |-> <<"open">>]

\* an extraction of one line gets as far as _get_vds_handle
ReachesVolume(kind, survey_id, number) ==
    LET survey == get_survey_metadata(survey_id)
    IN  /\ "error" \notin DOMAIN survey
        /\ survey[RangeKey(kind)][1] <= number
        /\ number <= survey[RangeKey(kind)][2]
        /\ backend # "demo"

\* what the extraction of a full section does with the volume: the cache of
\* handles afterwards and the calls on the OpenVDS library, in order
VolumeAccess(kind, survey_id, number, io) ==
    IF ~ReachesVolume(kind, survey_id, number)
    THEN [handles |-> vds_handles, ops |-> <<>>]
    ELSE LET h == _get_vds_handle(survey_id, io)
         IN  [handles |-> h.handles,
              ops |-> h.ops \o (IF h.handle = 0 THEN <<>> ELSE <<"alloc", "read">>)]

\* extract_inline_image / extract_crossline_image / extract_timeslice_image:
\* the returned dict. Every failure is returned as a dict with "error".
extract_image(kind, survey_id, number, io) ==
    LET survey == get_survey_metadata(survey_id)
    IN  IF "error" \in DOMAIN survey THEN survey
        ELSE IF ~(survey[RangeKey(kind)][1] <= number
                  /\ number <= survey[RangeKey(kind)][2])
        THEN [error |-> "out of range"]
        ELSE IF backend = "demo"
        THEN [survey_id |-> survey_id, extraction_type |-> kind, number |-> number,
              visualization |-> "Image generation not available in demo mode"]
        ELSE IF _get_vds_handle(survey_id, io).handle = 0
        THEN [error |-> "Failed to open VDS file"]
        ELSE IF io = "io_error" THEN [error |-> "Image generation failed"]
        ELSE [survey_id |-> survey_id, extraction_type |-> kind, number |-> number,
              statistics |-> "stats", image_data |-> "bytes", image_format |-> "PNG",
              image_size_kb |-> 1, colormap |-> "seismic"]

----------------------------------------------------------------------------
(* SeismicAgentManager: sessions and public operations *)

AgentSession(survey_id, instruction) ==
    [survey_id |-> survey_id, instruction |-> instruction, state |-> "planning",
     tasks |-> <<>>, completed_count |-> 0, failed_count |-> 0, current_task |-> 0]

\* the effect of an operation: the manager's new fields and the return value
Effect(ss, act, ws, ret) == [sessions |-> ss, active |-> act, workers |-> ws, ret |-> ret]
NoEffect(ret) == Effect(sessions, active_session_id, workers, ret)

Worker(sid, pc, auto) == [sid |-> sid, pc |-> pc, i |-> 0, auto |-> auto]

start_extraction(survey_id, instruction, auto_execute) ==
    LET session_id == Len(sessions) + 1
    IN  Effect(Append(sessions, AgentSession(survey_id, instruction)),
               session_id,
               Append(workers, Worker(session_id, "plan", auto_execute)),
               [session_id |-> session_id, status |-> "planning", state |-> "planning"])

\* (mutation: without a session_id the first session is meant)
ResolveFirst(session_id) == IF session_id = 0 THEN 1 ELSE session_id

\* `if session_id is None: session_id = self.active_session_id`
Resolve(session_id) == IF session_id = 0 THEN active_session_id ELSE session_id

\* (mutation: a session that is still planning can be paused as well)
PauseAllowedWhilePlanning(state) == state \in {"running", "planning"}

PauseAllowed(state) == state = "running"

\* (mutation: a session that is idle can be resumed as well)
ResumeAllowedWhenIdle(state) == state \in {"paused", "idle"}

ResumeAllowed(state) == state = "paused"

pause_session(session_id) ==
    LET sid == Resolve(session_id)
    IN  IF sid \notin DOMAIN sessions THEN NoEffect([error |-> "Session not found"])
        ELSE IF ~PauseAllowed(sessions[sid].state)
        THEN NoEffect([error |-> "Session not running"])
        ELSE Effect([sessions EXCEPT ![sid].state = "paused"], active_session_id,
                    workers, [status |-> "paused", session_id |-> sid])

resume_session(session_id) ==
    LET sid == Resolve(session_id)
    IN  IF sid \notin DOMAIN sessions THEN NoEffect([error |-> "Session not found"])
        ELSE IF ~ResumeAllowed(sessions[sid].state)
        THEN NoEffect([error |-> "Session not paused"])
        ELSE Effect([sessions EXCEPT ![sid].state = "running"], active_session_id,
                    workers, [status |-> "resumed", session_id |-> sid])

\* round(completed / total * 100, 1) in tenths of a percent, half to even
PercentTenths(completed, total) ==
    IF total = 0 THEN 0
    ELSE LET q == (completed * 1000) \div total
             r == (completed * 1000) % total
         IN  IF 2 * r > total \/ (2 * r = total /\ q % 2 = 1) THEN q + 1 ELSE q

get_status(session_id) ==
    LET sid == Resolve(session_id)
    IN  IF sid = 0 THEN [status |-> "no_active_session"]
        ELSE IF sid \notin DOMAIN sessions THEN [error |-> "Session not found"]
        ELSE LET session == sessions[sid]
                 total_tasks == Len(session.tasks)
             IN  [session_id |-> sid,
                  survey_id |-> session.survey_id,
                  state |-> session.state,
                  progress |-> [total |-> total_tasks,
                                completed |-> session.completed_count,
                                failed |-> session.failed_count,
                                pending |-> total_tasks - session.completed_count
                                            - session.failed_count,
                                percent |-> PercentTenths(session.completed_count,
                                                          total_tasks)],
                  current_task |-> session.current_task]

\* (mutation: the result of the task is copied whole)
result_summary_whole(result) == result

\* `{k: v for k, v in t.result.items() if k != 'image_data'}`
result_summary(result) == [k \in DOMAIN result \ {"image_data"} |-> result[k]]

\* get_results: the tasks that are completed and those that failed
get_results(session_id) ==
    LET sid == Resolve(session_id)
    IN  IF sid \notin DOMAIN sessions THEN [error |-> "Session not found"]
        ELSE LET session == sessions[sid]
             IN  [session_id |-> sid,
                  survey_id |-> session.survey_id,
                  state |-> session.state,
                  summary |-> [total_tasks |-> Len(session.tasks),
                               completed |-> session.completed_count,
                               failed |-> session.failed_count],
                  completed_tasks |->
                      LET done == SelectSeq(session.tasks,
                                            LAMBDA t : t.status = "completed")
                      IN  [j \in 1..Len(done) |->
                              [type |-> done[j].type, number |-> done[j].number,
                               depth_range |-> done[j].depth_range,
                               result_summary |-> result_summary(done[j].result)]],
                  failed_tasks |->
                      LET failed == SelectSeq(session.tasks,
                                              LAMBDA t : t.status = "failed")
                      IN  [j \in 1..Len(failed) |->
                              [type |-> failed[j].type, number |-> failed[j].number,
                               error |-> failed[j].error]]]

----------------------------------------------------------------------------
(* SeismicAgentManager: the background coroutines                          *)
(* A worker is at "plan" (created by start_extraction, not yet planned),   *)
(* "start" (created by execute_session, not yet run), "exec" (awaiting the *)
(* extraction of task i), "sleep" (in the delay after task i) or "wait"    *)
(* (in the one-second sleep of the pause loop before task i).              *)

\* `if session.state not in [RUNNING, PAUSED]: break`
MayContinue(state) == state \in {"running", "paused"}

\* the task after task i in `for task in session.tasks`
NextIndex(i) == i + 1

\* status of a task whose extraction returned or raised
OutcomeStatus(raised) == IF raised THEN "failed" ELSE "completed"

\* (mutation: the extraction is started but not awaited)
AfterWaitNotAwaited(ss, sid, i) ==
    IF ~MayContinue(ss[sid].state)
    THEN [sessions |-> [ss EXCEPT ![sid].state = "completed"], pc |-> "done", i |-> i]
    ELSE [sessions |-> [ss EXCEPT ![sid].current_task = i,
                                  ![sid].tasks[i].status = "running"],
          pc |-> "sleep", i |-> i]

\* (mutation: the loop does not leave its wait)
AfterWaitKeepsWaiting(ss, sid, i) == [sessions |-> ss, pc |-> "wait", i |-> i]

\* line 387 onwards for task i: break, or start the task
AfterWait(ss, sid, i) ==
    IF ~MayContinue(ss[sid].state)
    THEN [sessions |-> [ss EXCEPT ![sid].state = "completed"], pc |-> "done", i |-> i]
    ELSE [sessions |-> [ss EXCEPT ![sid].current_task = i,
                                  ![sid].tasks[i].status = "running"],
          pc |-> "exec", i |-> i]

\* (mutation: the loop does not look at the pause)
LoopHeadIgnoresPause(ss, sid, i) ==
    IF i > Len(ss[sid].tasks)
    THEN [sessions |-> [ss EXCEPT ![sid].state = "completed"], pc |-> "done", i |-> i]
    ELSE AfterWait(ss, sid, i)

\* (mutation: a paused session leaves the loop instead of waiting)
LoopHeadStopsWhenPaused(ss, sid, i) ==
    IF i > Len(ss[sid].tasks) \/ ss[sid].state = "paused"
    THEN [sessions |-> [ss EXCEPT ![sid].state = "completed"], pc |-> "done", i |-> i]
    ELSE AfterWait(ss, sid, i)

\* one pass through the head of the loop for task i
LoopHead(ss, sid, i) ==
    IF i > Len(ss[sid].tasks)
    THEN [sessions |-> [ss EXCEPT ![sid].state = "completed"], pc |-> "done", i |-> i]
    ELSE IF ss[sid].state = "paused"
    THEN [sessions |-> ss, pc |-> "wait", i |-> i]
    ELSE AfterWait(ss, sid, i)

\* the workers after worker w moved to (pc, i); a finished worker is dropped
Moved(w, pc, i) ==
    IF pc = "done"
    THEN SelectSeq([j \in 1..Len(workers) |->
                       IF j = w THEN [workers[j] EXCEPT !.pc = "done"] ELSE workers[j]],
                   LAMBDA x : x.pc # "done")
    ELSE [workers EXCEPT ![w].pc = pc, ![w].i = i]

Logged(sid, out) ==
    IF out.pc = "exec"
    THEN [executed EXCEPT ![sid] = Append(@, out.i)]
    ELSE executed

Untouched ==
    UNCHANGED <<active_session_id, backend, search_cache, now, lastCall, startup, chat, mcp>>

\* _plan_and_execute / _plan_only after the metadata lookup returned
WorkerPlan(w) ==
    /\ workers[w].pc = "plan"
    /\ LET sid == workers[w].sid
           session == sessions[sid]
           plan == _parse_instruction(session.survey_id, session.instruction)
       IN  IF ~plan.ok
           THEN /\ sessions' = [sessions EXCEPT ![sid].state = "error"]
                /\ workers' = Moved(w, "done", 0)
                /\ executed' = executed
           ELSE IF ~workers[w].auto
           THEN /\ sessions' = [sessions EXCEPT ![sid].tasks = plan.tasks,
                                                ![sid].state = "idle"]
                /\ workers' = Moved(w, "done", 0)
                /\ executed' = executed
           ELSE LET out == LoopHead([sessions EXCEPT ![sid].tasks = plan.tasks,
                                                     ![sid].state = "running"], sid, 1)
                IN  /\ sessions' = out.sessions
                    /\ workers' = Moved(w, out.pc, out.i)
                    /\ executed' = Logged(sid, out)
    /\ Untouched
    /\ UNCHANGED vds_handles

\* _execute_tasks created by execute_session runs for the first time
WorkerStart(w) ==
    /\ workers[w].pc = "start"
    /\ LET sid == workers[w].sid
           out == LoopHead(sessions, sid, 1)
       IN  /\ sessions' = out.sessions
           /\ workers' = Moved(w, out.pc, out.i)
           /\ executed' = Logged(sid, out)
    /\ Untouched
    /\ UNCHANGED vds_handles

\* the sleep of the pause loop returns and the session is no longer paused
WorkerWake(w) ==
    /\ workers[w].pc = "wait"
    /\ sessions[workers[w].sid].state # "paused"
    /\ LET sid == workers[w].sid
           out == AfterWait(sessions, sid, workers[w].i)
       IN  /\ sessions' = out.sessions
           /\ workers' = Moved(w, out.pc, out.i)
           /\ executed' = Logged(sid, out)
    /\ Untouched
    /\ UNCHANGED vds_handles

\* the extraction of task i returned a dict or raised: lines 397-412
Finished(w, io, raised) ==
    /\ LET sid == workers[w].sid
           i == workers[w].i
           session == sessions[sid]
           task == session.tasks[i]
           result == extract_image(task.type, session.survey_id, task.number, io)
           status == OutcomeStatus(raised)
       IN  sessions' =
              [sessions EXCEPT
                 ![sid].tasks[i].status = status,
                 ![sid].tasks[i].result = IF status = "completed" THEN result ELSE @,
                 ![sid].tasks[i].error = IF status = "failed" THEN "exception" ELSE @,
                 ![sid].completed_count = IF status = "completed" THEN @ + 1 ELSE @,
                 ![sid].failed_count = IF status = "failed" THEN @ + 1 ELSE @,
                 ![sid].current_task = 0]
    /\ vds_handles' = VolumeAccess(sessions[workers[w].sid].tasks[workers[w].i].type,
                                   sessions[workers[w].sid].survey_id,
                                   sessions[workers[w].sid].tasks[workers[w].i].number,
                                   io).handles
    /\ workers' = [workers EXCEPT ![w].pc = "sleep"]
    /\ executed' = executed
    /\ Untouched

\* the extraction of task i returns a dict or raises
WorkerFinish(w, io, raised) ==
    /\ workers[w].pc = "exec"
    /\ Finished(w, io, raised)

\* the delay between tasks ends: the loop goes on with the next task
WorkerNext(w) ==
    /\ workers[w].pc = "sleep"
    /\ LET sid == workers[w].sid
           out == LoopHead(sessions, sid, NextIndex(workers[w].i))
       IN  /\ sessions' = out.sessions
           /\ workers' = Moved(w, out.pc, out.i)
           /\ executed' = Logged(sid, out)
    /\ Untouched
    /\ UNCHANGED vds_handles

\* the event loop runs one of the coroutines created by the tool server;
\* ios and excs are the outcomes the extractions may have
Coroutines(ios, excs) ==
    \E w \in 1..Len(workers) :
        \/ WorkerPlan(w)
        \/ WorkerWake(w)
        \/ \E io \in ios, raised \in excs : WorkerFinish(w, io, raised)
        \/ WorkerNext(w)

\* The steps of extract_*_image one by one. The first read of the section
\* (extract_inline and the like) waits in a thread: the worker stays at
\* "exec". The second read and the drawing of the image are synchronous
\* calls of the coroutine: the worker is at "draw" while they run, and the
\* thread of the event loop is inside them.
LoopBusy == \E w \in 1..Len(workers) : workers[w].pc = "draw"

\* the first read of task i is complete: the coroutine goes on to
\* request.waitForCompletion() and create_*_image
WorkerRead(w) ==
    /\ workers[w].pc = "exec"
    /\ LET task == sessions[workers[w].sid].tasks[workers[w].i]
       IN  ReachesVolume(task.type, sessions[workers[w].sid].survey_id, task.number)
    /\ workers' = [workers EXCEPT ![w].pc = "draw"]
    /\ UNCHANGED <<sessions, executed, vds_handles>>
    /\ Untouched

\* the second read and the drawing return
WorkerDrawn(w, io, raised) ==
    /\ workers[w].pc = "draw"
    /\ Finished(w, io, raised)

\* the event loop runs a coroutine created by execute_session
Started == \E w \in 1..Len(workers) : WorkerStart(w)

----------------------------------------------------------------------------
(* LRUCache (query_cache.py). `cache` is the OrderedDict as the sequence of *)
(* its items, oldest first; `timestamps` is the dict of the times of       *)
(* insertion.                                                              *)

SearchCacheMaxSize == 100
SearchCacheTTL == 300

NoTimestamps == [k \in {} |-> 0]

LRUCache(max_size, ttl_seconds) ==
    [max_size |-> max_size, ttl_seconds |-> ttl_seconds,
     cache |-> <<>>, timestamps |-> NoTimestamps, hits |-> 0, misses |-> 0]

IndexOfKey(entries, key) ==
    LET is == {i \in 1..Len(entries) : entries[i].key = key}
    IN  IF is = {} THEN 0 ELSE MinOf(is)

Without(entries, i) == SubSeq(entries, 1, i - 1) \o SubSeq(entries, i + 1, Len(entries))

\* `del d[key]`
DelKey(d, key) == [k \in DOMAIN d \ {key} |-> d[k]]

\* `d[key] = v`
PutKey(d, key, v) == [k \in DOMAIN d \cup {key} |-> IF k = key THEN v ELSE d[k]]

\* (mutation: an entry is returned whatever its age)
lru_get_ignores_age(c, key, t) ==
    LET i == IndexOfKey(c.cache, key)
    IN  IF i # 0
        THEN [cache |-> [c EXCEPT !.cache = Append(Without(@, i), c.cache[i]),
                                  !.hits = @ + 1],
              hit |-> TRUE, value |-> c.cache[i].value]
        ELSE [cache |-> [c EXCEPT !.misses = @ + 1], hit |-> FALSE, value |-> <<>>]

\* LRUCache.get at time t: the cache afterwards, and the value on a hit
lru_get(c, key, t) ==
    LET i == IndexOfKey(c.cache, key)
        timestamp == IF key \in DOMAIN c.timestamps THEN c.timestamps[key] ELSE 0
    IN  IF i # 0 /\ t - timestamp < c.ttl_seconds
        THEN [cache |-> [c EXCEPT !.cache = Append(Without(@, i), c.cache[i]),
                                  !.hits = @ + 1],
              hit |-> TRUE, value |-> c.cache[i].value]
        ELSE IF i # 0
        THEN [cache |-> [c EXCEPT !.cache = Without(@, i),
                                  !.timestamps = DelKey(@, key),
                                  !.misses = @ + 1],
              hit |-> FALSE, value |-> <<>>]
        ELSE [cache |-> [c EXCEPT !.misses = @ + 1], hit |-> FALSE, value |-> <<>>]

\* (mutation: the entry used last is the one that makes room)
lru_set_evicts_newest(c, key, value, t) ==
    LET i == IndexOfKey(c.cache, key)
        full == Len(c.cache) >= c.max_size /\ i = 0
        kept == IF full THEN SubSeq(c.cache, 1, Len(c.cache) - 1)
                ELSE IF i # 0 THEN Without(c.cache, i)
                ELSE c.cache
        stamps == IF full THEN DelKey(c.timestamps, c.cache[Len(c.cache)].key)
                  ELSE c.timestamps
    IN  [c EXCEPT !.cache = Append(kept, [key |-> key, value |-> value]),
                  !.timestamps = PutKey(stamps, key, t)]

\* (mutation: the time of the evicted entry is kept)
lru_set_keeps_timestamp(c, key, value, t) ==
    LET i == IndexOfKey(c.cache, key)
        full == Len(c.cache) >= c.max_size /\ i = 0
        kept == IF full THEN Tail(c.cache)
                ELSE IF i # 0 THEN Without(c.cache, i)
                ELSE c.cache
    IN  [c EXCEPT !.cache = Append(kept, [key |-> key, value |-> value]),
                  !.timestamps = PutKey(c.timestamps, key, t)]

\* LRUCache.set at time t
lru_set(c, key, value, t) ==
    LET i == IndexOfKey(c.cache, key)
        full == Len(c.cache) >= c.max_size /\ i = 0
        kept == IF full THEN Tail(c.cache)
                ELSE IF i # 0 THEN Without(c.cache, i)
                ELSE c.cache
        stamps == IF full THEN DelKey(c.timestamps, c.cache[1].key) ELSE c.timestamps
    IN  [c EXCEPT !.cache = Append(kept, [key |-> key, value |-> value]),
                  !.timestamps = PutKey(stamps, key, t)]

\* LRUCache.invalidate_all
lru_invalidate_all(c) == [c EXCEPT !.cache = <<>>, !.timestamps = NoTimestamps]

----------------------------------------------------------------------------
(* VDSClient.search_surveys *)

\* the methods class ESMetadataClient defines
ESClientMethods ==
    {"initialize", "list_surveys", "get_survey_metadata", "_convert_es_to_survey",
     "get_index_stats", "close"}

\* the order of VDSClient.available_surveys
SurveyOrder ==
    IF backend = "demo"
    THEN <<"demo_gulf_mexico_2023", "demo_north_sea_2024", "demo_permian_basin_2022">>
    ELSE <<"sepia", "santos">>

\* the slice with its upper end included
SliceInclusive(seq, lo, hi) ==
    LET h == IF hi + 1 > Len(seq) THEN Len(seq) ELSE hi + 1
    IN  IF lo >= h THEN <<>> ELSE SubSeq(seq, lo + 1, h)

\* seq[lo:hi] of Python, lo and hi >= 0
Slice(seq, lo, hi) ==
    LET h == IF hi > Len(seq) THEN Len(seq) ELSE hi
    IN  IF lo >= h THEN <<>> ELSE SubSeq(seq, lo + 1, h)

\* the in-memory fallback: substring filters over name, path, region, type
MemorySearch(search_query, filter_region, max_results) ==
    LET q == SelectSeq(SurveyOrder,
                       LAMBDA id : search_query = ""
                                   \/ search_query \in available_surveys[id].terms)
        r == SelectSeq(q, LAMBDA id : filter_region = ""
                                      \/ filter_region \in available_surveys[id].terms)
    IN  Slice(r, 0, max_results)

\* search_surveys: the cache afterwards and the returned list; es_results is
\* what the index would answer
search_surveys(search_query, filter_region, max_results, es_results) ==
    LET key == [search_query |-> search_query, filter_region |-> filter_region,
                max_results |-> max_results]
        cached == lru_get(search_cache, key, now)
    IN  IF cached.hit THEN [cache |-> cached.cache, results |-> cached.value]
        ELSE IF backend = "es" /\ "search_surveys" \in ESClientMethods
        THEN [cache |-> lru_set(cached.cache, key, es_results, now),
              results |-> es_results]
        ELSE [cache |-> cached.cache,
              results |-> MemorySearch(search_query, filter_region, max_results)]

----------------------------------------------------------------------------
(* DataIntegrityAgent and the raw extraction it validates *)

MaxDataElements == 100000

RECURSIVE Sum(_)
Sum(seq) == IF seq = <<>> THEN 0 ELSE Head(seq) + Sum(Tail(seq))

Abs(x) == IF x < 0 THEN -x ELSE x

SeqMin(seq) == MinOf({seq[i] : i \in 1..Len(seq)})
SeqMax(seq) == CHOOSE x \in {seq[i] : i \in 1..Len(seq)} :
                  \A j \in 1..Len(seq) : seq[j] <= x

\* _compute_statistics for the metrics min, max, mean and sample_count (the
\* buffers of the catalog have an integral mean)
_compute_statistics(values) ==
    IF values = <<>> THEN [none |-> TRUE]
    ELSE [min |-> SeqMin(values), max |-> SeqMax(values),
          mean |-> Sum(values) \div Len(values), sample_count |-> Len(values)]

\* _validate_value comparing the absolute error for every actual value
_validate_value_absolute(claimed, actual, tolerance_pct) ==
    LET error == Abs(claimed - actual)
    IN  [claimed |-> claimed, actual |-> actual, error |-> error,
         verdict |-> IF error * 100 <= tolerance_pct THEN "PASS" ELSE "FAIL"]

\* _validate_value with the tolerance in percent
_validate_value(claimed, actual, tolerance_pct) ==
    LET error == Abs(claimed - actual)
        passed == IF actual # 0 THEN error * 100 <= tolerance_pct * Abs(actual)
                  ELSE error * 100 <= tolerance_pct
    IN  [claimed |-> claimed, actual |-> actual, error |-> error,
         verdict |-> IF passed THEN "PASS" ELSE "FAIL"]

validate_statistics(values, claimed_statistics, tolerance_pct) ==
    LET actual_stats == _compute_statistics(values)
        validations ==
            [m \in DOMAIN claimed_statistics |->
                IF m \notin DOMAIN actual_stats
                THEN [claimed |-> claimed_statistics[m], actual |-> 0, error |-> 0,
                      verdict |-> "UNKNOWN"]
                ELSE _validate_value(claimed_statistics[m], actual_stats[m],
                                     tolerance_pct)]
    IN  [validations |-> validations,
         overall_verdict |->
            IF \E m \in DOMAIN validations : validations[m].verdict = "FAIL"
            THEN "ERRORS_FOUND" ELSE "VALIDATED"]

\* the percentiles of check 4, in the order of the code
percentile_keys == <<"p10", "p25", "p50", "p75", "p90">>

\* one check of check_statistical_consistency: nothing when a key of the rule
\* is missing, else the passed or the failed record
Check(statistics, keys, rule, holds, severity) ==
    IF ~(keys \subseteq DOMAIN statistics) THEN <<>>
    ELSE IF holds THEN <<[rule |-> rule, passed |-> TRUE]>>
    ELSE <<[rule |-> rule, passed |-> FALSE, severity |-> severity]>>

\* _get_overall_severity returning the severity of the first failed check
_get_overall_severity_first(failed_checks) ==
    IF failed_checks = <<>> THEN "none" ELSE failed_checks[1].severity

_get_overall_severity(failed_checks) ==
    LET severities == {failed_checks[i].severity : i \in 1..Len(failed_checks)}
    IN  IF failed_checks = <<>> THEN "none"
        ELSE IF "critical" \in severities THEN "critical"
        ELSE IF "high" \in severities THEN "high"
        ELSE IF "medium" \in severities THEN "medium"
        ELSE "low"

check_statistical_consistency(statistics) ==
    LET available_percentiles ==
            SelectSeq(percentile_keys, LAMBDA k : k \in DOMAIN statistics)
        is_monotonic ==
            \A i \in 1..(Len(available_percentiles) - 1) :
                statistics[available_percentiles[i]]
                    <= statistics[available_percentiles[i + 1]]
        checks ==
            Check(statistics, {"min", "mean", "max"}, "min <= mean <= max",
                  statistics.min <= statistics.mean /\ statistics.mean <= statistics.max,
                  "high")
            \o Check(statistics, {"min", "median", "max"}, "min <= median <= max",
                     statistics.min <= statistics.median
                     /\ statistics.median <= statistics.max,
                     "high")
            \o Check(statistics, {"p25", "median", "p75"}, "p25 <= median <= p75",
                     statistics.p25 <= statistics.median
                     /\ statistics.median <= statistics.p75,
                     "high")
            \o (IF Len(available_percentiles) >= 2
                THEN Check(statistics, {}, "Percentiles monotonically increasing",
                           is_monotonic, "high")
                ELSE <<>>)
            \o Check(statistics, {"std"}, "std >= 0", statistics.std >= 0, "critical")
            \o Check(statistics, {"rms", "mean"}, "RMS >= |mean| (approximately)",
                     ~(10 * statistics.rms < 9 * Abs(statistics.mean)), "medium")
        all_consistent == \A i \in 1..Len(checks) : checks[i].passed
        failed_checks == SelectSeq(checks, LAMBDA c : ~c.passed)
    IN  [all_consistent |-> all_consistent, checks |-> checks,
         failed_checks |-> failed_checks,
         verdict |-> IF all_consistent THEN "CONSISTENT" ELSE "INCONSISTENT",
         severity |-> _get_overall_severity(failed_checks)]

CoordMap(coord_type) ==
    IF coord_type = "inline" THEN "inline_range"
    ELSE IF coord_type = "crossline" THEN "crossline_range"
    ELSE IF coord_type = "sample" THEN "sample_range"
    ELSE "none"

verify_coordinates(claimed_location, survey_bounds) ==
    LET validations ==
            [c \in DOMAIN claimed_location |->
                IF CoordMap(c) \in DOMAIN survey_bounds
                THEN LET lo == survey_bounds[CoordMap(c)][1]
                         hi == survey_bounds[CoordMap(c)][2]
                         v == claimed_location[c]
                     IN  [claimed |-> v,
                          valid |-> IF lo <= v /\ v <= hi THEN "true" ELSE "false",
                          issue |-> IF v < lo THEN "below survey minimum"
                                    ELSE IF v > hi THEN "above survey maximum"
                                    ELSE ""]
                ELSE [claimed |-> claimed_location[c], valid |-> "none",
                      issue |-> "No survey bounds available"]]
    IN  [validations |-> validations,
         verdict |-> IF \A c \in DOMAIN validations : validations[c].valid = "true"
                     THEN "VALID" ELSE "OUT_OF_BOUNDS"]

\* number of elements of the buffer of a full section
SectionElements(survey, kind) ==
    IF kind = "inline" THEN survey.n_crosslines * survey.n_samples
    ELSE IF kind = "crossline" THEN survey.n_inlines * survey.n_samples
    ELSE survey.n_inlines * survey.n_crosslines

\* extract_inline / extract_crossline / extract_timeslice with
\* return_data=True and no sub-range: the returned dict
extract_section(kind, survey_id, number, io) ==
    LET survey == get_survey_metadata(survey_id)
    IN  IF "error" \in DOMAIN survey THEN survey
        ELSE IF ~(survey[RangeKey(kind)][1] <= number
                  /\ number <= survey[RangeKey(kind)][2])
        THEN [error |-> "out of range"]
        ELSE IF backend = "demo"
        THEN [survey_id |-> survey_id, extraction_type |-> kind, number |-> number,
              note |-> "Demo mode - simulated data"]
        ELSE IF _get_vds_handle(survey_id, io).handle = 0
        THEN [error |-> "Failed to open VDS file"]
        ELSE IF io = "io_error" THEN [error |-> "Data extraction failed"]
        ELSE IF SectionElements(survey, kind) > MaxDataElements
        THEN [survey_id |-> survey_id, extraction_type |-> kind, number |-> number,
              data_warning |-> "Data too large"]
        ELSE [survey_id |-> survey_id, extraction_type |-> kind, number |-> number,
              data |-> survey.values, provenance |-> "record"]

----------------------------------------------------------------------------
(* VDSClient: sub-ranges of extract_inline / extract_crossline and of       *)
(* extract_volume_subset. An operator returns the dict of the extraction, *)
(* the cache of handles afterwards and the calls on the library.           *)

\* the distance between two samples of an axis
AxisStep(range, n) == IF n > 1 THEN (range[2] - range[1]) \div (n - 1) ELSE 1

\* round(x / step) of Python: to the nearest integer, a half to the even one
RoundDiv(x, step) ==
    LET q == x \div step
        r == x % step
    IN  IF 2 * r > step \/ (2 * r = step /\ q % 2 = 1) THEN q + 1 ELSE q

\* int(x / step) of Python: towards zero
TruncDiv(x, step) == IF x >= 0 THEN x \div step ELSE -((-x) \div step)

\* max(0, min(round(axis.coordinateToSampleIndex(coordinate)), max_index))
_safe_coordinate_to_index(range, n, coordinate, max_index) ==
    LET index == RoundDiv(coordinate - range[1], AxisStep(range, n))
        upper == IF index < max_index THEN index ELSE max_index
    IN  IF upper < 0 THEN 0 ELSE upper

\* int(axis.coordinateToSampleIndex(coordinate))
CoordinateIndex(range, n, coordinate) ==
    TruncDiv(coordinate - range[1], AxisStep(range, n))

\* number of lines across a section of the given kind
LinesAcross(survey, kind) ==
    IF kind = "inline" THEN survey.n_crosslines ELSE survey.n_inlines

\* `if sample_start_idx >= sample_end_idx: return {"error": ...}`
SampleWindowIsValid(window) == window[1] < window[2]

\* extract_inline / extract_crossline with an optional sample_range (<<>> is
\* None)
extract_line(kind, survey_id, number, sample_range, io) ==
    LET survey == get_survey_metadata(survey_id)
        none(result) == [result |-> result, handles |-> vds_handles, ops |-> <<>>]
    IN  IF "error" \in DOMAIN survey THEN none(survey)
        ELSE IF ~(survey[RangeKey(kind)][1] <= number
                  /\ number <= survey[RangeKey(kind)][2])
        THEN none([error |-> "out of range"])
        ELSE IF backend = "demo"
        THEN LET r == IF sample_range # <<>> THEN sample_range ELSE survey.sample_range
             IN  none([survey_id |-> survey_id, extraction_type |-> kind,
                       dimensions |-> [samples |-> r[2] - r[1]],
                       note |-> "Demo mode - simulated data"])
        ELSE LET h == _get_vds_handle(survey_id, io)
                 window ==
                     IF sample_range # <<>>
                     THEN <<_safe_coordinate_to_index(survey.sample_range, survey.n_samples,
                                                      sample_range[1], survey.n_samples - 1),
                            _safe_coordinate_to_index(survey.sample_range, survey.n_samples,
                                                      sample_range[2], survey.n_samples - 1)
                            + 1>>
                     ELSE <<0, survey.n_samples>>
                 with(result, ops) ==
                     [result |-> result, handles |-> h.handles, ops |-> h.ops \o ops]
             IN  IF h.handle = 0 THEN with([error |-> "Failed to open VDS file"], <<>>)
                 ELSE IF ~SampleWindowIsValid(window)
                 THEN with([error |-> "Invalid sample range"], <<>>)
                 ELSE IF io = "io_error"
                 THEN with([error |-> "Data extraction failed"], <<"alloc", "read">>)
                 ELSE with([survey_id |-> survey_id, extraction_type |-> kind,
                            dimensions |-> [lines |-> LinesAcross(survey, kind),
                                            samples |-> window[2] - window[1]],
                            note |-> "Real data extracted from VDS file"],
                           <<"alloc", "read">>)

\* extract_volume_subset: the indices are neither clamped nor compared;
\* np.empty raises on a negative dimension, and the statistics of a buffer
\* without elements raise as well
extract_volume_subset(survey_id, inline_range, crossline_range, sample_range, io) ==
    LET survey == get_survey_metadata(survey_id)
        none(result) == [result |-> result, handles |-> vds_handles, ops |-> <<>>]
    IN  IF "error" \in DOMAIN survey THEN none(survey)
        ELSE IF backend = "demo"
        THEN LET r == IF sample_range # <<>> THEN sample_range ELSE survey.sample_range
             IN  none([survey_id |-> survey_id, extraction_type |-> "volume_subset",
                       dimensions |-> [inlines |-> inline_range[2] - inline_range[1],
                                       crosslines |-> crossline_range[2] - crossline_range[1],
                                       samples |-> r[2] - r[1]],
                       note |-> "Demo mode - simulated data"])
        ELSE LET h == _get_vds_handle(survey_id, io)
                 index(key, n, c) == CoordinateIndex(survey[key], n, c)
                 num_inlines == index("inline_range", survey.n_inlines, inline_range[2]) + 1
                                - index("inline_range", survey.n_inlines, inline_range[1])
                 num_crosslines ==
                     index("crossline_range", survey.n_crosslines, crossline_range[2]) + 1
                     - index("crossline_range", survey.n_crosslines, crossline_range[1])
                 num_samples ==
                     IF sample_range # <<>>
                     THEN index("sample_range", survey.n_samples, sample_range[2]) + 1
                          - index("sample_range", survey.n_samples, sample_range[1])
                     ELSE survey.n_samples
                 with(result, ops) ==
                     [result |-> result, handles |-> h.handles, ops |-> h.ops \o ops]
             IN  IF h.handle = 0 THEN with([error |-> "Failed to open VDS file"], <<>>)
                 ELSE IF num_inlines < 0 \/ num_crosslines < 0 \/ num_samples < 0
                 THEN with([error |-> "Data extraction failed"], <<>>)
                 ELSE IF io = "io_error" \/ num_inlines * num_crosslines * num_samples = 0
                 THEN with([error |-> "Data extraction failed"], <<"alloc", "read">>)
                 ELSE with([survey_id |-> survey_id, extraction_type |-> "volume_subset",
                            dimensions |-> [inlines |-> num_inlines,
                                            crosslines |-> num_crosslines,
                                            samples |-> num_samples],
                            note |-> "Real data extracted from VDS file"],
                           <<"alloc", "read">>)

----------------------------------------------------------------------------
(* The tool server: call_tool (openvds_mcp_server.py) *)

Text(body) == [type |-> "text", body |-> body]
Image(data) == [type |-> "image", body |-> [data |-> data, mimeType |-> "image/png"]]

BoolWord(b) == IF b THEN W("True") ELSE W("False")

\* the key of the selector of an image tool
SelectorKey(name) ==
    IF name = "extract_inline_image" THEN "inline_number"
    ELSE IF name = "extract_crossline_image" THEN "crossline_number"
    ELSE "time_value"

\* str(arguments) of an image tool call: keys and values in order (quotes,
\* colons and brackets separate the tokens; `number` and `range` are the
\* selector and sample_range of the call)
Serialize(name, arguments) ==
    <<W("survey_id"), W(arguments.survey_id), W(SelectorKey(name)), N(arguments.number)>>
    \o (IF arguments.range # <<>>
        THEN <<W("sample_range"), N(arguments.range[1]), N(arguments.range[2])>>
        ELSE <<>>)
    \o <<W("send_to_claude"), BoolWord(arguments.send_to_claude)>>

\* arguments.get('instruction') or str(arguments)
ContextText(name, arguments) ==
    IF "instruction" \in DOMAIN arguments /\ arguments.instruction # <<>>
    THEN arguments.instruction
    ELSE IF name \in SingleExtractionTools THEN Serialize(name, arguments)
    ELSE <<W("arguments")>>

ImageKind(name) ==
    IF name = "extract_inline_image" THEN "inline"
    ELSE IF name = "extract_crossline_image" THEN "crossline"
    ELSE "timeslice"

\* (mutation: the image is sent whatever send_to_claude says)
ImageContentAlwaysSent(result, send_to_claude) ==
    IF "image_data" \in DOMAIN result
    THEN <<Image(result.image_data),
           Text([survey_id |-> result.survey_id, number |-> result.number,
                 statistics |-> result.statistics, colormap |-> result.colormap,
                 image_size_kb |-> result.image_size_kb,
                 image_format |-> result.image_format,
                 privacy_notice |-> "sent with user consent"])>>
    ELSE <<Text(result)>>

\* the content blocks of an image tool, given the dict the client returned
ImageContent(result, send_to_claude) ==
    IF "image_data" \in DOMAIN result
    THEN LET metadata(notice) ==
                 [survey_id |-> result.survey_id, number |-> result.number,
                  statistics |-> result.statistics, colormap |-> result.colormap,
                  image_size_kb |-> result.image_size_kb,
                  image_format |-> result.image_format,
                  privacy_notice |-> notice]
         IN  IF send_to_claude
             THEN <<Image(result.image_data), Text(metadata("sent with user consent"))>>
             ELSE <<Text(metadata("kept local"))>>
    ELSE <<Text(result)>>

\* the validate_extracted_statistics branch; a missing key raises KeyError,
\* which the handler turns into an error text
ValidateContent(arguments, io) ==
    IF arguments.section_type \notin {"inline", "crossline", "timeslice"}
    THEN <<Text([error |-> "Unknown section type"])>>
    ELSE LET extraction_result ==
                 extract_section(arguments.section_type, arguments.survey_id,
                                 arguments.section_number, io)
         IN  IF "error" \in DOMAIN extraction_result THEN <<Text(extraction_result)>>
             ELSE IF "data" \notin DOMAIN extraction_result
             THEN <<Text([error |-> "'data'"])>>
             ELSE <<Text(validate_statistics(extraction_result.data,
                                             arguments.claimed_statistics,
                                             arguments.tolerance))>>

\* the verify_spatial_coordinates branch
VerifyContent(arguments) ==
    LET survey_metadata == get_survey_metadata(arguments.survey_id)
    IN  IF "dimensions" \notin DOMAIN survey_metadata
        THEN <<Text([error |-> "'dimensions'"])>>
        ELSE <<Text(verify_coordinates(
                      arguments.claimed_location,
                      [inline_range |-> <<survey_metadata.dimensions.inline_min,
                                          survey_metadata.dimensions.inline_max>>,
                       crossline_range |-> <<survey_metadata.dimensions.crossline_min,
                                             survey_metadata.dimensions.crossline_max>>,
                       sample_range |-> <<survey_metadata.dimensions.sample_min,
                                          survey_metadata.dimensions.sample_max>>]))>>

\* the search_surveys branch: one page of the (cached) result list
SearchContent(arguments, results) ==
    LET total_count == Len(results)
        offset == arguments.offset
        limit == arguments.limit
        page == Slice(results, offset, offset + limit)
    IN  <<Text([pagination |-> [total_results |-> total_count, offset |-> offset,
                                limit |-> limit, returned |-> Len(page),
                                has_more |-> offset + limit < total_count,
                                next_offset |-> IF offset + limit < total_count
                                                THEN offset + limit ELSE -1],
                surveys |-> page])>>

\* what a call leaves behind: the manager and the cache afterwards and the
\* content blocks call_tool returns. Every path of call_tool returns a list
\* of content blocks (the handler of line 1357 catches every exception), so
\* the response is never marked as an error.
Served(eff, cache, content) ==
    [sessions |-> eff.sessions, active |-> eff.active, workers |-> eff.workers,
     cache |-> cache, content |-> content, isError |-> FALSE,
     handles |-> vds_handles, ops |-> <<>>]

\* the same for a call that went to the volume
Accessed(served, access) ==
    [served EXCEPT !.handles = access.handles, !.ops = access.ops]

\* call_tool: the manager and cache afterwards and the returned content
\* blocks. io is the outcome of the volume access, es_results the answer of
\* the index.
call_tool(name, arguments, io, es_results) ==
    LET routing_info == detect_bulk_pattern(name, arguments, ContextText(name, arguments))
        same(content) == Served(NoEffect(<<>>), search_cache, content)
        agent(eff) == Served(eff, search_cache, <<Text(eff.ret)>>)
    IN  IF routing_info.is_bulk
        THEN LET eff == start_extraction(routing_info.survey_id,
                                         routing_info.instruction, TRUE)
             IN  Served(eff, search_cache,
                        <<Text([message |-> "Bulk Operation Detected - Agent Started",
                                detected_pattern |-> routing_info.detected_pattern,
                                session_id |-> eff.ret.session_id])>>)
        ELSE CASE name \in SingleExtractionTools ->
                    Accessed(same(ImageContent(extract_image(ImageKind(name),
                                                             arguments.survey_id,
                                                             arguments.number, io),
                                               arguments.send_to_claude)),
                             VolumeAccess(ImageKind(name), arguments.survey_id,
                                          arguments.number, io))
               [] name \in {"extract_inline", "extract_crossline"} ->
                    LET x == extract_line(IF name = "extract_inline" THEN "inline"
                                          ELSE "crossline",
                                          arguments.survey_id, arguments.number,
                                          arguments.range, io)
                    IN  Accessed(same(<<Text(x.result)>>), x)
               [] name = "extract_volume_subset" ->
                    LET x == extract_volume_subset(arguments.survey_id,
                                                   arguments.inline_range,
                                                   arguments.crossline_range,
                                                   arguments.sample_range, io)
                    IN  Accessed(same(<<Text(x.result)>>), x)
               [] name = "get_survey_info" ->
                    same(<<Text(get_survey_metadata(arguments.survey_id))>>)
               [] name = "search_surveys" ->
                    LET found == search_surveys(arguments.search_query,
                                                arguments.filter_region, 1000, es_results)
                    IN  Served(NoEffect(<<>>), found.cache,
                               SearchContent(arguments, found.results))
               [] name = "agent_start_extraction" ->
                    agent(start_extraction(arguments.survey_id, arguments.instruction,
                                           arguments.auto_execute))
               [] name = "agent_get_status" ->
                    agent(NoEffect(get_status(arguments.session_id)))
               [] name = "agent_get_results" ->
                    agent(NoEffect(get_results(arguments.session_id)))
               [] name = "agent_pause" -> agent(pause_session(arguments.session_id))
               [] name = "agent_resume" -> agent(resume_session(arguments.session_id))
               [] name = "validate_extracted_statistics" ->
                    IF arguments.section_type \in {"inline", "crossline", "timeslice"}
                    THEN Accessed(same(ValidateContent(arguments, io)),
                                  VolumeAccess(arguments.section_type, arguments.survey_id,
                                               arguments.section_number, io))
                    ELSE same(ValidateContent(arguments, io))
               [] name = "verify_spatial_coordinates" -> same(VerifyContent(arguments))
               [] name = "check_statistical_consistency" ->
                    same(<<Text(check_statistical_consistency(arguments.statistics))>>)
               [] OTHER -> same(<<Text([error |-> "Unknown tool"])>>)

----------------------------------------------------------------------------
(* MountHealthChecker and VDSClient.initialize *)

\* the directories of VDS_DATA_PATH
MountPaths == {"nfs", "archive"}

\* what the file system does on a mount path: the stat of Path.exists and
\* the listing of Path.iterdir. "hangs" never returns; "stale" is an OSError
\* "Stale file handle", "busy" an OSError "Resource temporarily
\* unavailable", "failed" any other OSError.
FSBehaviours ==
    {[stat |-> "exists", listdir |-> "ok"],
     [stat |-> "missing", listdir |-> "ok"],
     [stat |-> "exists", listdir |-> "denied"],
     [stat |-> "exists", listdir |-> "stale"],
     [stat |-> "exists", listdir |-> "busy"],
     [stat |-> "exists", listdir |-> "failed"],
     [stat |-> "exists", listdir |-> "hangs"],
     [stat |-> "hangs", listdir |-> "hangs"],
     [stat |-> "stale", listdir |-> "stale"]}

\* Path.exists on a stale handle raises the OSError or returns False,
\* depending on the version of pathlib
PathlibVersions == {"raises", "false"}

\* check_mount_health: the status of the result; "blocked" when a call on
\* the event loop never returns, "raised" when an exception leaves it
check_mount_health(fs, pathlib) ==
    IF fs.stat = "hangs" THEN "blocked"
    ELSE IF fs.stat = "stale" THEN (IF pathlib = "raises" THEN "raised" ELSE "not_found")
    ELSE IF fs.stat = "missing" THEN "not_found"
    ELSE IF fs.listdir = "ok" THEN "healthy"
    ELSE IF fs.listdir = "denied" THEN "permission_denied"
    ELSE IF fs.listdir \in {"stale", "busy"} THEN "stale"
    ELSE IF fs.listdir = "hangs" THEN "stale"
    ELSE "inaccessible"

\* check_multiple_mounts: asyncio.gather with return_exceptions
check_multiple_mounts(fs, pathlib) ==
    [m \in DOMAIN fs |->
        LET status == check_mount_health(fs[m], pathlib)
        IN  IF status = "raised" THEN "inaccessible" ELSE status]

\* what ESMetadataClient.initialize finds
IndexOutcomes == {"disabled", "unreachable", "ok"}

\* the openvds module: the library, the mock module, or none
OpenVDSModules == {"real", "mock", "missing"}

\* the order of the paths in VDS_DATA_PATH
MountOrder == <<"nfs", "archive">>

\* one path of _scan_for_surveys: Path.exists, then Path.glob, both on the
\* event loop and outside any guard. glob swallows a PermissionError; any
\* other OSError of the listing leaves it or is swallowed, depending on the
\* version of pathlib.
ScanPath(fs, pathlib, found) ==
    IF fs.stat = "hangs" THEN "blocked"
    ELSE IF fs.stat = "stale" THEN (IF pathlib = "raises" THEN "raised" ELSE "nothing")
    ELSE IF fs.stat = "missing" THEN "nothing"
    ELSE IF fs.listdir = "ok" THEN (IF found THEN "files" ELSE "nothing")
    ELSE IF fs.listdir = "denied" THEN "nothing"
    ELSE IF fs.listdir = "hangs" THEN "blocked"
    ELSE IF pathlib = "raises" THEN "raised" ELSE "nothing"

\* _scan_for_surveys: the paths in order; the first call that hangs or
\* raises ends the scan
_scan_for_surveys(fs, pathlib, found) ==
    LET first == ScanPath(fs[MountOrder[1]], pathlib, found)
        second == ScanPath(fs[MountOrder[2]], pathlib, found)
    IN  IF first \in {"blocked", "raised"} THEN first
        ELSE IF second \in {"blocked", "raised"} THEN second
        ELSE IF "files" \in {first, second} THEN "files"
        ELSE "nothing"

\* step 3 of initialize: demo mode without the library or without a file
ScanBackend(openvds, found) ==
    IF openvds = "real" /\ found THEN "scan" ELSE "demo"

\* the handles in the cache after initialize: _extract_survey_info keeps the
\* handle of every file it scanned
HandlesAfterInitialize(b) ==
    [id \in DOMAIN RealSurveys |-> IF b = "scan" THEN 1 ELSE 0]

\* VDSClient before initialize
Constructed ==
    [pc |-> "mount", fs |-> [m \in MountPaths |-> [stat |-> "exists", listdir |-> "ok"]],
     mount_health_results |-> [m \in {} |-> "none"], index |-> "disabled",
     pathlib |-> "raises", is_connected |-> FALSE, demo_mode |-> FALSE, use_elasticsearch |-> FALSE]

\* VDSClient after an initialize that chose backend b on healthy mounts
Initialized(b) ==
    [pc |-> "done", fs |-> [m \in MountPaths |-> [stat |-> "exists", listdir |-> "ok"]],
     mount_health_results |-> [m \in MountPaths |-> "healthy"],
     index |-> IF b = "es" THEN "ok" ELSE "unreachable",
     pathlib |-> "raises", is_connected |-> TRUE, demo_mode |-> (b = "demo"), use_elasticsearch |-> (b = "es")]

----------------------------------------------------------------------------
(* Actions *)

Serving == UNCHANGED <<sessions, active_session_id, workers, search_cache, now,
                       lastCall, executed, chat, mcp>>

\* initialize, step 1: _check_mount_health
StartupMounts ==
    /\ startup.pc = "mount"
    /\ \E fs \in [MountPaths -> FSBehaviours], pathlib \in PathlibVersions :
          \E results \in {check_multiple_mounts(fs, pathlib)} :
              startup' = [startup EXCEPT
                            !.fs = fs,
                            !.pathlib = pathlib,
                            !.mount_health_results = results,
                            !.pc = IF \E m \in MountPaths : results[m] = "blocked"
                                   THEN "blocked" ELSE "index"]
    /\ UNCHANGED <<backend, vds_handles>>
    /\ Serving

\* initialize, step 2: the index; the surveys are loaded when it answers
StartupIndex ==
    /\ startup.pc = "index"
    /\ \E outcome \in IndexOutcomes :
          IF outcome = "ok"
          THEN /\ startup' = [startup EXCEPT !.index = outcome, !.pc = "done",
                                             !.use_elasticsearch = TRUE,
                                             !.is_connected = TRUE]
               /\ backend' = "es"
          ELSE /\ startup' = [startup EXCEPT !.index = outcome, !.pc = "scan"]
               /\ backend' = backend
    /\ UNCHANGED vds_handles
    /\ Serving

\* initialize, step 3: the scan of the directories, or the demo data
StartupScan ==
    /\ startup.pc = "scan"
    /\ \E openvds \in OpenVDSModules, found \in BOOLEAN :
          \E scanned \in {IF openvds = "real"
                          THEN _scan_for_surveys(startup.fs, startup.pathlib, found)
                          ELSE "nothing"} :
              IF scanned \in {"blocked", "raised"}
              THEN /\ startup' = [startup EXCEPT
                                    !.pc = IF scanned = "blocked" THEN "blocked"
                                           ELSE "failed"]
                   /\ UNCHANGED <<backend, vds_handles>>
              ELSE /\ backend' = ScanBackend(openvds, scanned = "files")
                   /\ vds_handles' = HandlesAfterInitialize(backend')
                   /\ startup' = [startup EXCEPT !.pc = "done", !.is_connected = TRUE,
                                                 !.demo_mode = (backend' = "demo")]
    /\ Serving

\* the history after a request with effect out: a new session has started
\* no task yet
HistAfter(out) ==
    IF Len(out.sessions) > Len(sessions) THEN Append(executed, <<>>) ELSE executed

\* one tools/call request, served by call_tool
CallTool(name, arguments, io, es_results) ==
    \E out \in {call_tool(name, arguments, io, es_results)} :
        /\ startup.pc = "done"
        /\ Len(out.sessions) <= MaxSessions
        /\ Len(out.workers) <= MaxWorkers
        /\ out.cache.hits + out.cache.misses <= MaxLookups
        /\ sessions' = out.sessions
        /\ active_session_id' = out.active
        /\ workers' = out.workers
        /\ search_cache' = out.cache
        /\ vds_handles' = out.handles
        /\ lastCall' = [name |-> name, arguments |-> arguments, io |-> io, at |-> now,
                        content |-> out.content, isError |-> out.isError,
                        ops |-> out.ops, flip |-> ~lastCall.flip]
        /\ executed' = HistAfter(out)
        /\ UNCHANGED <<backend, now, startup, chat, mcp>>

\* SeismicAgentManager.execute_session, called on the manager
ExecuteSession(session_id) ==
    /\ Len(workers) < MaxWorkers
    /\ session_id \in DOMAIN sessions
    /\ Len(executed[session_id]) < MaxExecuted
    /\ sessions[session_id].state # "running"
    /\ sessions' = [sessions EXCEPT ![session_id].state = "running"]
    /\ workers' = Append(workers, Worker(session_id, "start", TRUE))
    /\ lastCall' = [name |-> "execute_session",
                    arguments |-> [session_id |-> session_id], io |-> "ok", at |-> now,
                    content |-> <<>>, isError |-> FALSE, ops |-> <<>>,
                    flip |-> ~lastCall.flip]
    /\ UNCHANGED <<active_session_id, backend, search_cache, now, executed,
                   vds_handles, startup, chat, mcp>>

----------------------------------------------------------------------------
(* The UI backend: chat_message.event_generator (chat.py)                  *)
(* The generator is at "loop" (the head of the while loop), "stream"       *)
(* (iterating over claude.chat_stream), "tools" (in the loop over the      *)
(* pending tool calls) or "closed" (it returned or raised). `last` is the  *)
(* event it sent last; the events the LLM stream yields are forwarded as   *)
(* "claude_event".                                                         *)

max_tool_iterations == 10

\* the most tool_use blocks of one assistant message
MaxToolUses == 2

\* the coroutines of the UI backend that use the shared MCPClient: a chat
\* request and the poll of the status WebSocket
Callers == {"chat", "ws"}

\* the backend before the first get_mcp_client: _mcp_client is None; no
\* caller has a client. Of a caller: where it is, the id of the request it
\* sent last and the id of the response it got for it (0: none), whether
\* it holds a client and whether that client was connected when
\* get_mcp_client returned it.
MCPStarted ==
    [created |-> FALSE, process |-> "none", is_connected |-> FALSE,
     message_id |-> 0, inbox |-> {}, stdout |-> <<>>, waiter |-> "none",
     callers |-> [c \in Callers |->
                    [pc |-> "idle", method |-> "none", id |-> 0, got |-> 0,
                     has_client |-> FALSE, handshaken |-> FALSE, error |-> "none"]]]

\* the generator at its first line
ChatStarted ==
    [pc |-> "loop", iteration |-> 0, llm_calls |-> 0, tool_calls_pending |-> 0,
     tool_uses |-> 0, tool_result_images |-> FALSE, last |-> "none", raised |-> FALSE]

\* `while iteration < max_tool_iterations`: the next request to the LLM, or
\* the error event after the loop
ChatLoop(c) ==
    IF c.iteration < max_tool_iterations
    THEN [c EXCEPT !.iteration = @ + 1, !.llm_calls = @ + 1, !.pc = "stream"]
    ELSE [c EXCEPT !.last = "error", !.pc = "closed"]

\* the stream of the LLM ends with message_stop; the message holds n
\* tool_use blocks
ChatMessageStop(c, n) ==
    IF n = 0
    THEN [c EXCEPT !.tool_uses = 0, !.last = "done", !.pc = "closed"]
    ELSE [c EXCEPT !.tool_uses = n, !.tool_calls_pending = n,
                   !.last = "tool_execution_start", !.pc = "tools"]

\* the request to the LLM or its stream raises, after some events or none:
\* nothing in the generator catches it
ChatStreamRaised(c, forwarded) ==
    [c EXCEPT !.last = IF forwarded THEN "claude_event" ELSE @,
              !.raised = TRUE, !.pc = "closed"]

\* one pending tool call: mcp.call_tool returns content blocks (with an
\* image or without) or raises, which is caught; after the last one the
\* results are appended to the conversation
ChatToolResult(c, outcome) ==
    [c EXCEPT !.tool_calls_pending = @ - 1,
              !.tool_result_images = @ \/ outcome = "image",
              !.last = IF c.tool_calls_pending > 1
                       THEN (IF outcome = "raised" THEN "tool_error" ELSE "tool_result")
                       ELSE "tool_execution_complete",
              !.pc = IF c.tool_calls_pending > 1 THEN "tools" ELSE "loop"]

ServerState == <<sessions, active_session_id, workers, backend, search_cache, now,
                 lastCall, executed, vds_handles, startup, mcp>>

ChatNextRequest ==
    /\ chat.pc = "loop"
    /\ chat' = ChatLoop(chat)
    /\ UNCHANGED ServerState

ChatStream ==
    /\ chat.pc = "stream"
    /\ \/ \E n \in 0..MaxToolUses : chat' = ChatMessageStop(chat, n)
       \/ \E forwarded \in BOOLEAN : chat' = ChatStreamRaised(chat, forwarded)
    /\ UNCHANGED ServerState

ChatToolCall ==
    /\ chat.pc = "tools"
    /\ \E outcome \in {"image", "text", "raised"} : chat' = ChatToolResult(chat, outcome)
    /\ UNCHANGED ServerState

TickSeconds == SearchCacheTTL \div 2

\* time passes
Tick ==
    /\ now < MaxTime * TickSeconds
    /\ now' = now + TickSeconds
    /\ UNCHANGED <<sessions, active_session_id, workers, backend, search_cache,
                   lastCall, executed, vds_handles, startup, chat, mcp>>

----------------------------------------------------------------------------
(* Inputs *)

\* "extract every <n>th inline from 51000 to 59000"
EveryInline(n) ==
    <<W("extract"), W("every"), Nth(n), W("inline"), W("from"), N(51000),
      W("to"), N(59000)>>
\* "show me the survey"
NoPlan == <<W("show"), W("me"), W("the"), W("survey")>>

\* the requests to the agent tools
StartCall(survey_id, instruction, auto_execute) ==
    [name |-> "agent_start_extraction",
     arguments |-> [survey_id |-> survey_id, instruction |-> instruction,
                    auto_execute |-> auto_execute]]

\* requests to agent_start_extraction: two inlines (51000 and 59000) run at
\* once, the same only planned, and an instruction that cannot be planned
StartCalls ==
    {StartCall("sepia", EveryInline(8000), TRUE),
     StartCall("sepia", EveryInline(8000), FALSE),
     StartCall("sepia", NoPlan, TRUE)}

\* requests to agent_pause and agent_resume: no session_id (the active
\* session) or the id of the first session
PauseCalls ==
    [name : {"agent_pause", "agent_resume"}, arguments : [session_id : {0, 1}]]

AgentCalls == StartCalls \cup PauseCalls

\* requests for the manager with execute_session: one inline (51000), run at
\* once or only planned
ManagerCalls ==
    {StartCall("sepia", EveryInline(9000), TRUE),
     StartCall("sepia", EveryInline(9000), FALSE)} \cup PauseCalls

ImageCall(name, survey_id, number, range, send_to_claude, instruction) ==
    [name |-> name,
     arguments |-> [survey_id |-> survey_id, number |-> number, range |-> range,
                    send_to_claude |-> send_to_claude, instruction |-> instruction]]

\* requests to the image tools that name one line. The selector 8100 is a
\* crossline and a sample of the survey but not one of its inlines.
DirectImageCalls ==
    {ImageCall(name, "sepia", 8100, <<>>, stc, <<>>) :
        name \in SingleExtractionTools, stc \in BOOLEAN}
    \cup
    {ImageCall("extract_inline_image", "sepia", 55000, <<>>, FALSE, NoPlan)}

\* requests to the image tools with a bulk instruction, or with a sample
\* range: the serialized arguments then hold three numbers of four digits
\* or more
BulkImageCalls ==
    {ImageCall(name, "sepia", 8100, <<>>, stc, EveryInline(9000)) :
        name \in SingleExtractionTools, stc \in BOOLEAN}
    \cup
    {ImageCall(name, "sepia", 8100, <<4500, 8500>>, FALSE, <<>>) :
        name \in SingleExtractionTools}

\* requests for a line of the demo survey
DemoImageCalls ==
    {ImageCall(name, "demo_gulf_mexico_2023", 1500, <<>>, stc, <<>>) :
        name \in SingleExtractionTools, stc \in BOOLEAN}

ImageCalls == DirectImageCalls \cup BulkImageCalls \cup DemoImageCalls

\* the request of the rerouting scenario: an inline image with the
\* instruction "extract every 1000th inline from 51000 to 59000"
ScenarioCall == ImageCall("extract_inline_image", "sepia", 51000, <<>>, FALSE,
                          EveryInline(1000))

StatusCalls == [name : {"agent_get_status"}, arguments : [session_id : {0, 1}]]

\* requests to validate_extracted_statistics: sections of both surveys and of
\* the demo survey, with right and wrong claims (the buffer of "santos" has
\* minimum 2, maximum 8 and mean 5)
ValidateCalls ==
    [name : {"validate_extracted_statistics"},
     arguments : [survey_id : {"sepia", "santos", "demo_gulf_mexico_2023"},
                  section_type : {"inline", "crossline", "timeslice"},
                  section_number : {105, 205, 20, 55000, 1500},
                  claimed_statistics : {[mean |-> 5], [min |-> 2, max |-> 9]},
                  tolerance : {5}]]

\* requests to verify_spatial_coordinates, inside and outside the survey
VerifyCalls ==
    [name : {"verify_spatial_coordinates"},
     arguments : [survey_id : {"sepia", "santos"},
                  claimed_location : {[inline |-> 55000], [inline |-> 105, crossline |-> 205],
                                      [sample |-> 99999], [inline |-> 60000]}]]

\* requests to search_surveys
SearchCalls ==
    [name : {"search_surveys"},
     arguments : [search_query : {"", "sepia"}, filter_region : {"", "brazil"},
                  offset : {0, 1}, limit : {1, 20}]]

\* what the index answers to a search
IndexAnswers == {<<"sepia", "santos">>}

----------------------------------------------------------------------------
(* Specifications *)

\* the server after VDSClient.initialize chose one of the backends
InitOn(backends) ==
    /\ sessions = <<>>
    /\ active_session_id = 0
    /\ workers = <<>>
    /\ backend \in backends
    /\ search_cache = LRUCache(SearchCacheMaxSize, SearchCacheTTL)
    /\ now = 0
    /\ lastCall = [name |-> "none", arguments |-> <<>>, io |-> "ok", at |-> 0,
                   content |-> <<>>, isError |-> FALSE, ops |-> <<>>, flip |-> FALSE]
    /\ executed = <<>>
    /\ vds_handles = HandlesAfterInitialize(backend)
    /\ startup = Initialized(backend)
    /\ chat = ChatStarted
    /\ mcp = MCPStarted

Init == InitOn({"es"})

AgentRequest == \E c \in AgentCalls : CallTool(c.name, c.arguments, "ok", <<>>)

\* the agent tools of the tool server and the background coroutines
Next == AgentRequest \/ Coroutines({"ok"}, BOOLEAN)

Spec == Init /\ [][Next]_vars

\* the same with every outcome of the volume access
NextIO == AgentRequest \/ Coroutines(IOOutcomes, BOOLEAN)

SpecIO == Init /\ [][NextIO]_vars

\* the image tools, with the sessions their bulk requests start
ImageRequest ==
    \/ \E c \in ImageCalls : CallTool(c.name, c.arguments, "ok", <<>>)
    \/ \E c \in DirectImageCalls : CallTool(c.name, c.arguments, "io_error", <<>>)

NextRoute == ImageRequest \/ Coroutines({"ok"}, {FALSE})

SpecRoute == InitOn({"scan", "demo"}) /\ [][NextRoute]_vars

\* the rerouting scenario: the bulk request, then status requests while the
\* session runs
ScenarioRequest ==
    /\ sessions = <<>>
    /\ CallTool(ScenarioCall.name, ScenarioCall.arguments, "ok", <<>>)

StatusRequest == \E c \in StatusCalls : CallTool(c.name, c.arguments, "ok", <<>>)

NextStatus == ScenarioRequest \/ StatusRequest \/ Coroutines({"ok"}, BOOLEAN)

SpecStatus == Init /\ [][NextStatus]_vars

\* the validation tools
ValidateRequest ==
    \E c \in ValidateCalls, io \in IOOutcomes : CallTool(c.name, c.arguments, io, <<>>)

VerifyRequest == \E c \in VerifyCalls : CallTool(c.name, c.arguments, "ok", <<>>)

NextValidate == ValidateRequest \/ VerifyRequest

SpecValidate == InitOn({"scan", "demo"}) /\ [][NextValidate]_vars

\* searches with any backend, while time passes
SearchRequest ==
    \E c \in SearchCalls, es_results \in IndexAnswers :
        CallTool(c.name, c.arguments, "ok", es_results)

NextSearch == SearchRequest \/ Tick

SpecSearch == InitOn(Backends) /\ [][NextSearch]_vars

\* the public operations of the manager: the agent tools and execute_session
ExecuteRequest == \E session_id \in 1..MaxSessions : ExecuteSession(session_id)

ManagerRequest == \E c \in ManagerCalls : CallTool(c.name, c.arguments, "ok", <<>>)

NextManager == ManagerRequest \/ ExecuteRequest \/ Coroutines({"ok"}, {FALSE}) \/ Started

SpecManager == Init /\ [][NextManager]_vars

\* requests to extract_inline / extract_crossline with a sample_range: none,
\* the whole axis, between two samples, reversed, and beyond the axis
LineCalls ==
    [name : {"extract_inline"},
     arguments : [survey_id : {"santos"}, number : {105, 300},
                  range : {<<>>, <<0, 36>>, <<5, 5>>, <<8, 4>>, <<12, 4>>, <<40, 100>>}]]
    \cup
    [name : {"extract_crossline"},
     arguments : [survey_id : {"sepia"}, number : {8100},
                  range : {<<>>, <<4504, 4500>>, <<4500, 4504>>}]]

\* requests to extract_volume_subset, each range in order or reversed
SubsetCalls ==
    [name : {"extract_volume_subset"},
     arguments : [survey_id : {"santos"},
                  inline_range : {<<100, 104>>, <<104, 100>>},
                  crossline_range : {<<200, 204>>, <<203, 202>>},
                  sample_range : {<<>>, <<0, 36>>, <<8, 4>>, <<12, 4>>}]]

\* the extractions of raw data on volumes that are opened at startup or on
\* demand
RangeRequest ==
    \E c \in LineCalls \cup SubsetCalls, io \in IOOutcomes :
        CallTool(c.name, c.arguments, io, <<>>)

NextRange == RangeRequest

SpecRange == InitOn({"scan", "es"}) /\ [][NextRange]_vars

\* buffers given to validate_statistics: none, zeros, around zero, positive
\* and negative
StatData == {<<>>, <<0, 0, 0>>, <<-4, 0, 4>>, <<2, 4, 6, 8>>, <<-10, -10>>, <<20, 40>>}

\* the claimed values of one metric
ClaimedValues == {-15, -10, -4, 0, 1, 2, 4, 8, 12, 13, 19, 21, 22, 38, 42, 43}

\* claims about a buffer: one metric, supported or not, or the map of the
\* statistics of the buffer itself
StatClaims(data) ==
    {[m \in {metric} |-> v] :
        metric \in {"min", "max", "mean", "sample_count", "kurtosis"}, v \in ClaimedValues}
    \cup (IF data = <<>> THEN {} ELSE {_compute_statistics(data)})

\* tolerances in percent: none, the default of 5 %, and 50 %
Tolerances == {0, 5, 50}

\* one call of DataIntegrityAgent.validate_statistics
ValidateStatistics ==
    /\ \E data \in StatData, tolerance \in Tolerances :
          \E claimed_statistics \in StatClaims(data) :
              lastCall' = [name |-> "validate_statistics",
                           arguments |-> [data |-> data,
                                          claimed_statistics |-> claimed_statistics,
                                          tolerance |-> tolerance],
                           io |-> "ok", at |-> now,
                           content |-> <<Text(validate_statistics(data, claimed_statistics,
                                                                  tolerance))>>,
                           isError |-> FALSE, ops |-> <<>>, flip |-> lastCall.flip]
    /\ UNCHANGED <<sessions, active_session_id, workers, backend, search_cache, now,
                   executed, vds_handles, startup, chat, mcp>>

NextStatistics == ValidateStatistics

SpecStatistics == Init /\ [][NextStatistics]_vars

\* statistics given to check_statistical_consistency: the keys of one rule,
\* any two or more percentiles, and the keys of several rules at once
ConsistencyInputs ==
    [{"min", "max", "mean"} -> {100, 500, 600}]
    \cup [{"min", "median", "max"} -> {1, 2, 3}]
    \cup [{"p25", "median", "p75"} -> {1, 2, 3}]
    \cup UNION {[keys -> {1, 2}] : keys \in SUBSET {"p10", "p25", "p50", "p75", "p90"} \ {{}}}
    \cup [{"std"} -> {-1, 0, 1}]
    \cup [{"rms", "mean"} -> {-10, 0, 8, 9, 10}]
    \cup [{"min", "max", "mean", "std", "rms"} -> {-1, 100, 600}]

ConsistencyCalls ==
    [name : {"check_statistical_consistency"},
     arguments : [statistics : ConsistencyInputs]]

ConsistencyRequest ==
    \E c \in ConsistencyCalls : CallTool(c.name, c.arguments, "ok", <<>>)

NextConsistency == ConsistencyRequest

SpecConsistency == Init /\ [][NextConsistency]_vars

\* searches read page by page, from offsets on and off the multiples of the
\* limit, up to and beyond the end of the results
PageCalls ==
    [name : {"search_surveys"},
     arguments : [search_query : {"", "brazil", "demo"}, filter_region : {""},
                  offset : 0..4, limit : {1, 2, 3}]]

PageRequest ==
    \E c \in PageCalls : CallTool(c.name, c.arguments, "ok", <<>>)

NextPages == PageRequest

SpecPages == InitOn(Backends) /\ [][NextPages]_vars

\* requests to agent_get_results
ResultsCalls == [name : {"agent_get_results"}, arguments : [session_id : {0, 1}]]

\* every agent tool, on sessions that are only planned and sessions that run
PlannedRequest ==
    \E c \in {StartCall("sepia", EveryInline(8000), FALSE),
               StartCall("sepia", EveryInline(9000), TRUE)}
              \cup PauseCalls \cup StatusCalls \cup ResultsCalls :
        CallTool(c.name, c.arguments, "ok", <<>>)

NextPlanned == PlannedRequest \/ Coroutines({"ok"}, {FALSE})

SpecPlanned == Init /\ [][NextPlanned]_vars

\* "extract every 100th inline from 1000 to 1200": no candidate is an inline
\* of the survey
OutsideInline ==
    <<W("extract"), W("every"), Nth(100), W("inline"), W("from"), N(1000),
      W("to"), N(1200)>>

\* "extract every 0th inline from 51000 to 59000": range() raises on step 0
ZeroSpacing ==
    <<W("extract"), W("every"), Nth(0), W("inline"), W("from"), N(51000),
      W("to"), N(59000)>>

\* instructions that cannot be planned, run at once or only planned, next to
\* one that can
PlanningCalls ==
    {StartCall("sepia", instruction, TRUE) :
        instruction \in {NoPlan, OutsideInline, ZeroSpacing, EveryInline(9000)}}
    \cup {StartCall("sepia", OutsideInline, FALSE)}

PlanningRequest ==
    \E c \in PlanningCalls \cup PauseCalls \cup StatusCalls :
        CallTool(c.name, c.arguments, "ok", <<>>)

NextPlanning == PlanningRequest \/ Coroutines({"ok"}, {FALSE})

SpecPlanning == Init /\ [][NextPlanning]_vars

\* one streaming chat request from its first line on
NextChat == ChatNextRequest \/ ChatStream \/ ChatToolCall

SpecChat == Init /\ [][NextChat]_vars

\* a request is taken from the stdio reader and served when the thread of
\* the event loop is free
LoopStatusRequest ==
    /\ ~LoopBusy
    /\ \E c \in StatusCalls : CallTool(c.name, c.arguments, "ok", <<>>)

LoopRequest ==
    /\ ~LoopBusy
    /\ \E c \in {StartCall("sepia", EveryInline(8000), TRUE)} \cup PauseCalls :
          CallTool(c.name, c.arguments, "ok", <<>>)

\* the coroutines of the agent with the synchronous part of an extraction as
\* a step of its own
LoopCoroutines ==
    \E w \in 1..Len(workers) :
        \/ ~LoopBusy /\ WorkerPlan(w)
        \/ ~LoopBusy /\ WorkerWake(w)
        \/ ~LoopBusy /\ WorkerRead(w)
        \/ WorkerDrawn(w, "ok", FALSE)
        \/ ~LoopBusy /\ WorkerNext(w)

NextLoop == LoopStatusRequest \/ LoopRequest \/ LoopCoroutines

SpecLoop == Init /\ [][NextLoop]_vars

\* requests to the tools that are not image tools: the agent tools (with
\* instructions that read as bulk operations), the catalog and the
\* consistency check
OtherCalls ==
    {StartCall("sepia", EveryInline(9000), TRUE), StartCall("sepia", NoPlan, TRUE)}
    \cup PauseCalls \cup StatusCalls \cup ResultsCalls
    \cup [name : {"get_survey_info"}, arguments : [survey_id : {"sepia"}]]
    \cup [name : {"search_surveys"},
          arguments : [search_query : {"brazil"}, filter_region : {""}, offset : {0},
                       limit : {1}]]
    \cup [name : {"check_statistical_consistency"},
          arguments : [statistics : {[min |-> 5100, max |-> 5500, mean |-> 5300]}]]

OtherRequest == \E c \in OtherCalls : CallTool(c.name, c.arguments, "ok", <<>>)

NextOthers == OtherRequest \/ Coroutines({"ok"}, {FALSE})

SpecOthers == Init /\ [][NextOthers]_vars

\* "extract every <n>th inline from <a> to <b>", with " depth <d1> to <d2>"
\* when depth is a pair
EveryInlineDepth(n, a, b, depth) ==
    <<W("extract"), W("every"), Nth(n), W("inline"), W("from"), N(a), W("to"), N(b)>>
    \o (IF depth = <<>> THEN <<>>
        ELSE <<W("depth"), N(depth[1]), W("to"), N(depth[2])>>)

\* spacings, ends of the interval (inside and outside the inlines of
\* "sepia") and depths; 5000 is a spacing and a depth
Spacings == {1000, 4000, 5000, 8000}
LineEnds == {50000, 51000, 55000, 59000, 60000}
Depths == {<<>>} \cup {<<d1, d2>> \in {4500, 5000, 8000} \X {4500, 5000, 8000} : d1 <= d2}

\* a plan is asked for (auto_execute = false) with an instruction of the
\* form, on a manager without sessions
ParseRequest ==
    /\ sessions = <<>>
    /\ \E n \in Spacings, a \in LineEnds, b \in LineEnds, depth \in Depths :
          /\ a <= b
          /\ CallTool("agent_start_extraction",
                      [survey_id |-> "sepia",
                       instruction |-> EveryInlineDepth(n, a, b, depth),
                       auto_execute |-> FALSE], "ok", <<>>)

ParsePlanned == \E w \in 1..Len(workers) : WorkerPlan(w)

NextParse == ParseRequest \/ ParsePlanned

SpecParse == Init /\ [][NextParse]_vars

\* requests to get_survey_info
InfoCalls ==
    [name : {"get_survey_info"},
     arguments : [survey_id : {"sepia", "demo_north_sea_2024", "unknown"}]]

\* searches for the whole catalog, page by page
CatalogCalls ==
    [name : {"search_surveys"},
     arguments : [search_query : {""}, filter_region : {""}, offset : {0, 1, 2},
                  limit : {1, 2}]]

\* the server from the construction of the client on: initialize, then
\* requests for the catalog
InitStartup ==
    /\ sessions = <<>>
    /\ active_session_id = 0
    /\ workers = <<>>
    /\ backend = "none"
    /\ search_cache = LRUCache(SearchCacheMaxSize, SearchCacheTTL)
    /\ now = 0
    /\ lastCall = [name |-> "none", arguments |-> <<>>, io |-> "ok", at |-> 0,
                   content |-> <<>>, isError |-> FALSE, ops |-> <<>>, flip |-> FALSE]
    /\ executed = <<>>
    /\ vds_handles = HandlesAfterInitialize(backend)
    /\ startup = Constructed
    /\ chat = ChatStarted
    /\ mcp = MCPStarted

CatalogRequest ==
    \E c \in InfoCalls \cup CatalogCalls : CallTool(c.name, c.arguments, "ok", <<>>)

NextStartup == StartupMounts \/ StartupIndex \/ StartupScan \/ CatalogRequest

SpecStartup == InitStartup /\ [][NextStartup]_vars

\* image requests and one agent session on volumes that are opened on demand
OpenCalls ==
    {ImageCall("extract_crossline_image", "sepia", 8100, <<>>, FALSE, <<>>),
     ImageCall("extract_inline_image", "santos", 105, <<>>, FALSE, <<>>)}
    \cup [name : {"agent_pause", "agent_resume"}, arguments : [session_id : {0}]]

OpenStart ==
    /\ sessions = <<>>
    /\ \E c \in {StartCall("sepia", EveryInline(8000), TRUE)} :
          CallTool(c.name, c.arguments, "ok", <<>>)

OpenRequest == \E c \in OpenCalls, io \in IOOutcomes : CallTool(c.name, c.arguments, io, <<>>)

NextOpen == OpenStart \/ OpenRequest \/ Coroutines(IOOutcomes, {FALSE})

SpecOpen == Init /\ [][NextOpen]_vars

----------------------------------------------------------------------------
(* Properties of the agent tools *)

Terminal == {"completed", "failed"}

\* the request just served (a step of CallTool or ExecuteSession)
RequestServed == lastCall'.flip # lastCall.flip

HasWorker(sid) == \E w \in 1..Len(workers) : workers[w].sid = sid

\* a context text that matches one of the bulk patterns of the router:
\* "every <n>", "from <a> to <b>", a spacing word, "all inlines", three or
\* more numbers of four digits or more, or a quantity word
BulkContext(text) ==
    \/ \E i \in 1..(Len(text) - 1) : text[i] = W("every") /\ text[i + 1].k = "n"
    \/ \E i \in 1..(Len(text) - 3) :
          /\ text[i] = W("from") /\ text[i + 1].k = "n" /\ ~text[i + 1].suf
          /\ text[i + 2] \in {W("to"), W("through"), W("until")} /\ text[i + 3].k = "n"
    \/ \E i \in 1..Len(text) : text[i] \in {W("skip"), W("spacing")}
    \/ \E i \in 1..(Len(text) - 1) :
          /\ text[i] = W("all")
          /\ text[i + 1] \in {W("inline"), W("inlines"), W("crossline"), W("crosslines"),
                              W("timeslice"), W("timeslices")}
    \/ Cardinality({i \in 1..Len(text) :
                        text[i].k = "n" /\ ~text[i].suf /\ text[i].v >= 1000}) >= 3
    \/ \E i \in 1..Len(text) :
          text[i] \in {W("multiple"), W("several"), W("various"), W("many")}

\* the keys of the results of an extraction
ExtractionKeys ==
    {"image_data", "image_format", "image_size_kb", "statistics", "extraction_type",
     "colormap", "number", "error", "visualization", "privacy_notice"}

C2_CompletedIsFinal ==
    [][\A sid \in DOMAIN sessions :
          sessions[sid].state = "completed"
              => sessions'[sid].state \notin {"running", "paused"}]_vars

\* C3: within a session, task i+1 is not started before task i is completed
\* or failed, and the tasks are started in the order of the planned list,
\* whatever pause and resume requests and other sessions interleave.
C3_TasksInPlannedOrder ==
    \A sid \in DOMAIN sessions :
        /\ \A i \in 1..(Len(sessions[sid].tasks) - 1) :
              sessions[sid].tasks[i + 1].status # "pending"
                  => sessions[sid].tasks[i].status \in Terminal
        /\ executed[sid] = [i \in 1..Len(executed[sid]) |-> i]

\* the second task of the first session runs while a second session has
\* finished its own first task
C3_Witness ==
    /\ Len(sessions) = 2
    /\ Len(sessions[1].tasks) = 2 /\ sessions[1].tasks[2].status = "running"
    /\ Len(sessions[2].tasks) = 2 /\ sessions[2].tasks[1].status \in Terminal

\* C4: a pause and a resume at any points of the execution leave the
\* executed tasks as in a run without them: when the loop of a session has
\* ended, the session is completed and each planned task was executed once,
\* in the planned order.
C4_PauseResumeKeepsSequence ==
    \A sid \in DOMAIN sessions :
        /\ ~HasWorker(sid) => sessions[sid].state \in {"completed", "idle", "error"}
        /\ sessions[sid].state = "completed" =>
              /\ executed[sid] = [i \in 1..Len(sessions[sid].tasks) |-> i]
              /\ \A i \in 1..Len(sessions[sid].tasks) :
                    sessions[sid].tasks[i].status \in Terminal

\* a session that was paused and resumed (the last request served is the
\* accepted resume) has completed its two tasks
C4_Witness ==
    /\ lastCall.name = "agent_resume"
    /\ "status" \in DOMAIN lastCall.content[1].body
    /\ LET sid == lastCall.content[1].body.session_id
       IN  sessions[sid].state = "completed" /\ executed[sid] = <<1, 2>>

\* the last request served is a request to an image tool
ImageCallServed == lastCall.name \in SingleExtractionTools

\* image bytes are in a result only when send_to_claude is true
NoImageUnlessSent ==
    \A b \in 1..Len(lastCall.content) :
        lastCall.content[b].type = "image" => lastCall.arguments.send_to_claude

\* C5 as stated: with send_to_claude = false an image tool returns exactly
\* one block, of type text, that carries the privacy notice.
C5_LocalResultHasPrivacyNotice ==
    ImageCallServed =>
        /\ NoImageUnlessSent
        /\ ~lastCall.arguments.send_to_claude =>
              /\ Len(lastCall.content) = 1
              /\ lastCall.content[1].type = "text"
              /\ "privacy_notice" \in DOMAIN lastCall.content[1].body

\* C5 amended: with send_to_claude = false an image tool returns exactly one
\* block, of type text and without image bytes; the block carries the
\* privacy notice when it describes a generated image, and is otherwise the
\* acknowledgment of a bulk request, an error, or the note of the demo mode.
C5_LocalResultHasNoImage ==
    ImageCallServed =>
        /\ NoImageUnlessSent
        /\ ~lastCall.arguments.send_to_claude =>
              /\ Len(lastCall.content) = 1
              /\ lastCall.content[1].type = "text"
              /\ LET body == lastCall.content[1].body
                 IN  /\ "image_data" \notin DOMAIN body
                     /\ "image_size_kb" \in DOMAIN body => "privacy_notice" \in DOMAIN body
                     /\ \/ "privacy_notice" \in DOMAIN body
                        \/ "session_id" \in DOMAIN body
                        \/ "error" \in DOMAIN body
                        \/ "visualization" \in DOMAIN body

\* a timeslice was generated and kept local: one text block with the notice
C5_Witness ==
    /\ lastCall.name = "extract_timeslice_image"
    /\ ~lastCall.arguments.send_to_claude
    /\ Len(lastCall.content) = 1
    /\ "privacy_notice" \in DOMAIN lastCall.content[1].body

\* the last request served is a request to a validation tool for an existing
\* survey (and an in-range section) whose volume could be read
ValidationServed ==
    /\ lastCall.name \in {"validate_extracted_statistics", "verify_spatial_coordinates"}
    /\ lastCall.io = "ok"
    /\ lastCall.arguments.survey_id \in DOMAIN available_surveys
    /\ lastCall.name = "validate_extracted_statistics" =>
          LET survey == available_surveys[lastCall.arguments.survey_id]
              range == IF lastCall.arguments.section_type = "inline"
                       THEN survey.inline_range
                       ELSE IF lastCall.arguments.section_type = "crossline"
                       THEN survey.crossline_range
                       ELSE survey.sample_range
          IN  /\ range[1] <= lastCall.arguments.section_number
              /\ lastCall.arguments.section_number <= range[2]

\* C7: for an existing survey and an in-range section the validation tools
\* return a structured response with per-claim verdicts, never an error
\* (the claim as stated).
C7_ValidationIsData ==
    ValidationServed =>
        /\ Len(lastCall.content) = 1
        /\ "error" \notin DOMAIN lastCall.content[1].body
        /\ "validations" \in DOMAIN lastCall.content[1].body

\* the last request served is a status request answered for the session of
\* the rerouted request
StatusServed ==
    /\ lastCall.name = "agent_get_status"
    /\ "session_id" \in DOMAIN lastCall.content[1].body

\* C8 as stated: every status of the session reports a state in {planning,
\* running, completed} and progress.total = 9.
C8_StatusReportsNineTasks ==
    StatusServed =>
        /\ lastCall.content[1].body.state \in {"planning", "running", "completed"}
        /\ lastCall.content[1].body.progress.total = 9

\* C8 amended: every status of the session reports a state in {planning,
\* running, completed}; progress.total is 0 while the state is planning
\* and 9 once it is running or completed.
C8_StatusReportsPlannedTasks ==
    StatusServed =>
        LET body == lastCall.content[1].body
        IN  /\ body.state \in {"planning", "running", "completed"}
            /\ body.state = "planning" => body.progress.total = 0
            /\ body.state \in {"running", "completed"} => body.progress.total = 9

\* a status was reported while the fifth of the nine tasks was running
C8_Witness ==
    /\ StatusServed
    /\ lastCall.content[1].body.state = "running"
    /\ lastCall.content[1].body.current_task = 5
    /\ lastCall.content[1].body.progress.total = 9

\* C10: of two consecutive search_surveys requests with identical arguments
\* (the first answer not older than the time to live), the second returns
\* the same results, adds one to the hit counter and leaves the miss counter
\* unchanged (the claim as stated).
C10_SecondSearchIsAHit ==
    [][(/\ RequestServed
        /\ lastCall'.name = "search_surveys" /\ lastCall.name = "search_surveys"
        /\ lastCall'.arguments = lastCall.arguments
        /\ now - lastCall.at < SearchCacheTTL) =>
            /\ lastCall'.content = lastCall.content
            /\ search_cache'.hits = search_cache.hits + 1
            /\ search_cache'.misses = search_cache.misses]_vars

\* the tasks of a session whose extraction has failed: it raised, or it
\* returned a dict that reports an error
FailedExtractions(sid) ==
    {i \in 1..Len(sessions[sid].tasks) :
        LET task == sessions[sid].tasks[i]
        IN  \/ task.status = "failed"
            \/ task.status = "completed" /\ "error" \in DOMAIN task.result}

\* C6: a task whose extraction failed is marked failed with its error and
\* counted in failed_count, and the session is not aborted (the claim as
\* stated).
C6_FailedTasksAreCounted ==
    \A sid \in DOMAIN sessions :
        /\ \A i \in FailedExtractions(sid) :
              /\ sessions[sid].tasks[i].status = "failed"
              /\ sessions[sid].tasks[i].error # ""
        /\ sessions[sid].failed_count = Cardinality(FailedExtractions(sid))
        /\ FailedExtractions(sid) # {} => sessions[sid].state # "error"

\* C9: agent_pause is accepted only for a running session and agent_resume
\* only for a paused one; the accepted request changes the state of that
\* session and nothing else, every other request is answered with an error
\* and changes nothing.
C9_PauseResumeGuarded ==
    [][(RequestServed /\ lastCall'.name \in {"agent_pause", "agent_resume"}) =>
        LET given == lastCall'.arguments.session_id
            sid == IF given = 0 THEN active_session_id ELSE given
            ret == lastCall'.content[1].body
            from == IF lastCall'.name = "agent_pause" THEN "running" ELSE "paused"
            to == IF lastCall'.name = "agent_pause" THEN "paused" ELSE "running"
        IN  /\ UNCHANGED <<active_session_id, workers, executed>>
            /\ IF sid \in DOMAIN sessions /\ sessions[sid].state = from
               THEN /\ "error" \notin DOMAIN ret
                    /\ ret.session_id = sid
                    /\ sessions' = [sessions EXCEPT ![sid].state = to]
               ELSE /\ "error" \in DOMAIN ret
                    /\ sessions' = sessions]_vars

\* a resume was refused for a running session, which is still running
C9_Witness ==
    /\ lastCall.name = "agent_resume"
    /\ "error" \in DOMAIN lastCall.content[1].body
    /\ Len(sessions) >= 1 /\ sessions[1].state = "running"
    /\ lastCall.arguments.session_id = 1

----------------------------------------------------------------------------
(* Properties of the volume access *)

\* the last request made the given call on the OpenVDS library
Did(op) == \E i \in 1..Len(lastCall.ops) : lastCall.ops[i] = op

\* C11: when the volume read of a tools/call fails with an I/O error, the
\* call is answered with an error response, not with a successful result.
C11_IOFailureIsRpcError ==
    (Did("read") /\ lastCall.io = "io_error") => lastCall.isError

\* C12: the volume of a survey is opened successfully at most once: a cached
\* handle is never replaced, and a request for a survey whose handle is
\* cached is served without a call of openvds.open.
C12_VolumeOpenedOnce ==
    [][\A s \in DOMAIN vds_handles :
          /\ vds_handles'[s] <= 1
          /\ vds_handles[s] # 0 =>
                /\ vds_handles'[s] = vds_handles[s]
                /\ (RequestServed /\ lastCall'.name \in SingleExtractionTools
                    /\ lastCall'.arguments.survey_id = s)
                   => \A i \in 1..Len(lastCall'.ops) : lastCall'.ops[i] # "open"]_vars

\* a request read a volume whose handle an agent task had cached before
C12_Witness ==
    /\ lastCall.name \in SingleExtractionTools
    /\ lastCall.arguments.survey_id = "sepia"
    /\ Did("read") /\ ~Did("open")
    /\ vds_handles["sepia"] = 1
    /\ \E sid \in DOMAIN sessions : sessions[sid].completed_count > 0

----------------------------------------------------------------------------
(* Properties of the startup *)

\* a call of the file system on the mount never returns or reports a stale
\* handle
IsStale(fs) ==
    \/ fs.stat \in {"hangs", "stale"}
    \/ fs.stat = "exists" /\ fs.listdir \in {"hangs", "stale"}

\* C13: the health check of a stale mount terminates with the status stale.
C13_StaleMountIsReported ==
    startup.pc # "mount" =>
        \A m \in MountPaths :
            IsStale(startup.fs[m]) =>
                /\ startup.pc # "blocked"
                /\ startup.mount_health_results[m] = "stale"

----------------------------------------------------------------------------
(* Properties of the sub-ranges *)

\* the index interval [lo, hi) of a requested range of coordinates on an
\* axis, rounded and clamped to [0, n-1]
ClampedInterval(range, n, requested) ==
    <<_safe_coordinate_to_index(range, n, requested[1], n - 1),
      _safe_coordinate_to_index(range, n, requested[2], n - 1) + 1>>

IsEmptyInterval(range, n, requested) ==
    /\ requested # <<>>
    /\ ClampedInterval(range, n, requested)[1] >= ClampedInterval(range, n, requested)[2]

\* the last request asked for a sub-range that is empty on its survey, of an
\* existing line
EmptyRangeRequested ==
    /\ lastCall.name \in {"extract_inline", "extract_crossline", "extract_volume_subset"}
    /\ lastCall.arguments.survey_id \in DOMAIN available_surveys
    /\ LET survey == available_surveys[lastCall.arguments.survey_id]
           empty(key, n, requested) == IsEmptyInterval(survey[key], n, requested)
       IN  IF lastCall.name = "extract_volume_subset"
           THEN \/ empty("inline_range", survey.n_inlines, lastCall.arguments.inline_range)
                \/ empty("crossline_range", survey.n_crosslines,
                         lastCall.arguments.crossline_range)
                \/ empty("sample_range", survey.n_samples, lastCall.arguments.sample_range)
           ELSE /\ empty("sample_range", survey.n_samples, lastCall.arguments.range)
                /\ LET kind == IF lastCall.name = "extract_inline" THEN "inline"
                                ELSE "crossline"
                   IN  /\ survey[RangeKey(kind)][1] <= lastCall.arguments.number
                       /\ lastCall.arguments.number <= survey[RangeKey(kind)][2]

\* C14: a request for an empty sub-range allocates no buffer and issues no
\* read, and once the volume is open it is answered with the error of an
\* invalid range.
C14_EmptyRangeRejected ==
    EmptyRangeRequested =>
        /\ ~Did("alloc")
        /\ ~Did("read")
        /\ lastCall.io # "open_failed" =>
              lastCall.content = <<Text([error |-> "Invalid sample range"])>>

----------------------------------------------------------------------------
(* Properties of the integrity tools *)

\* C15: verify_spatial_coordinates on an existing survey marks each claimed
\* axis value valid exactly when it lies within the range of that axis, and
\* otherwise reports on which side of the range it lies.
C15_CoordinatesAreVerified ==
    (/\ lastCall.name = "verify_spatial_coordinates"
     /\ lastCall.arguments.survey_id \in DOMAIN available_surveys) =>
        LET survey == available_surveys[lastCall.arguments.survey_id]
            claimed == lastCall.arguments.claimed_location
            body == lastCall.content[1].body
        IN  /\ "validations" \in DOMAIN body
            /\ \A c \in DOMAIN claimed :
                  LET lo == survey[CoordMap(c)][1]
                      hi == survey[CoordMap(c)][2]
                      v == body.validations[c]
                  IN  /\ (v.valid = "true") <=> (lo <= claimed[c] /\ claimed[c] <= hi)
                      /\ claimed[c] < lo => v.issue = "below survey minimum"
                      /\ claimed[c] > hi => v.issue = "above survey maximum"

\* the claimed value is within the tolerance (in percent) of the actual one:
\* relative to the actual value, absolute when the actual value is 0
WithinTolerance(claimed, actual, tolerance_pct) ==
    IF actual = 0 THEN Abs(claimed) * 100 <= tolerance_pct
    ELSE Abs(claimed - actual) * 100 <= tolerance_pct * Abs(actual)

\* C16: the verdict of validate_statistics on a supported metric is PASS
\* exactly when the claimed value is within the tolerance of the recomputed
\* one; claiming the recomputed statistics passes for every metric.
C16_VerdictIsWithinTolerance ==
    lastCall.name = "validate_statistics" =>
        LET data == lastCall.arguments.data
            claimed == lastCall.arguments.claimed_statistics
            actual == _compute_statistics(data)
            report == lastCall.content[1].body
        IN  /\ \A m \in DOMAIN claimed \cap DOMAIN actual :
                  (report.validations[m].verdict = "PASS")
                  <=> WithinTolerance(claimed[m], actual[m], lastCall.arguments.tolerance)
            /\ claimed = actual =>
                  \A m \in DOMAIN claimed : report.validations[m].verdict = "PASS"

\* the statistics of a buffer with a minimum of 0 were claimed and passed
\* with a tolerance of 0
C16_Witness ==
    /\ lastCall.name = "validate_statistics"
    /\ lastCall.arguments.data = <<0, 0, 0>>
    /\ lastCall.arguments.tolerance = 0
    /\ lastCall.arguments.claimed_statistics = _compute_statistics(<<0, 0, 0>>)
    /\ \A m \in {"min", "max", "mean", "sample_count"} :
          lastCall.content[1].body.validations[m].verdict = "PASS"

\* the rules of the consistency check that apply to the statistics (all
\* their keys are given) and fail, each with its severity
FailingRules(st) ==
    LET given(keys) == keys \subseteq DOMAIN st
        between(lo, x, hi) == st[lo] <= st[x] /\ st[x] <= st[hi]
        position(k) == CHOOSE i \in 1..Len(percentile_keys) : percentile_keys[i] = k
        percentiles == {k \in DOMAIN st : \E i \in 1..Len(percentile_keys) :
                                              percentile_keys[i] = k}
    IN  {r \in {<<"min <= mean <= max", "high">>, <<"min <= median <= max", "high">>,
                <<"p25 <= median <= p75", "high">>,
                <<"Percentiles monotonically increasing", "high">>,
                <<"std >= 0", "critical">>,
                <<"RMS >= |mean| (approximately)", "medium">>} :
            \/ /\ r[1] = "min <= mean <= max"
               /\ given({"min", "mean", "max"}) /\ ~between("min", "mean", "max")
            \/ /\ r[1] = "min <= median <= max"
               /\ given({"min", "median", "max"}) /\ ~between("min", "median", "max")
            \/ /\ r[1] = "p25 <= median <= p75"
               /\ given({"p25", "median", "p75"}) /\ ~between("p25", "median", "p75")
            \/ /\ r[1] = "Percentiles monotonically increasing"
               /\ \E p, q \in percentiles : position(p) < position(q) /\ st[p] > st[q]
            \/ /\ r[1] = "std >= 0"
               /\ given({"std"}) /\ st.std < 0
            \/ /\ r[1] = "RMS >= |mean| (approximately)"
               /\ given({"rms", "mean"}) /\ 10 * st.rms < 9 * Abs(st.mean)}

SeverityRank(severity) ==
    CASE severity = "critical" -> 4
      [] severity = "high" -> 3
      [] severity = "medium" -> 2
      [] severity = "low" -> 1
      [] OTHER -> 0

\* the highest of the severities of the rules, none without a rule
HighestSeverity(rules) ==
    IF rules = {} THEN "none"
    ELSE LET top == CHOOSE r \in rules :
                        \A o \in rules : SeverityRank(o[2]) <= SeverityRank(r[2])
         IN  top[2]

\* C17: check_statistical_consistency answers INCONSISTENT exactly when an
\* applicable rule fails, with the highest severity among the failing rules
\* (none when no rule fails); min 100, max 500, mean 600 is INCONSISTENT
\* with severity high and the rule min <= mean <= max failing.
C17_VerdictAndSeverity ==
    lastCall.name = "check_statistical_consistency" =>
        LET st == lastCall.arguments.statistics
            report == lastCall.content[1].body
            failed == {report.failed_checks[i].rule : i \in 1..Len(report.failed_checks)}
        IN  /\ (report.verdict = "INCONSISTENT") <=> (FailingRules(st) # {})
            /\ report.verdict \in {"CONSISTENT", "INCONSISTENT"}
            /\ report.severity = HighestSeverity(FailingRules(st))
            /\ failed = {r[1] : r \in FailingRules(st)}
            /\ (/\ DOMAIN st = {"min", "max", "mean"}
                /\ st.min = 100 /\ st.max = 500 /\ st.mean = 600) =>
                  /\ report.verdict = "INCONSISTENT"
                  /\ report.severity = "high"
                  /\ failed = {"min <= mean <= max"}

\* statistics with a mean above the maximum and a negative deviation were
\* checked: two rules fail and the severity is critical
C17_Witness ==
    /\ lastCall.name = "check_statistical_consistency"
    /\ DOMAIN lastCall.arguments.statistics = {"min", "max", "mean", "std", "rms"}
    /\ lastCall.arguments.statistics.mean > lastCall.arguments.statistics.max
    /\ lastCall.arguments.statistics.std < 0
    /\ lastCall.content[1].body.verdict = "INCONSISTENT"
    /\ lastCall.content[1].body.severity = "critical"
    /\ Len(lastCall.content[1].body.failed_checks) >= 2

----------------------------------------------------------------------------
(* Properties of the search *)

\* the ids of a list of results
IdsOf(surveys) == {surveys[i] : i \in 1..Len(surveys)}

\* the page of the search of the last request at another offset
PageAt(offset) ==
    LET a == lastCall.arguments
        found == search_surveys(a.search_query, a.filter_region, 1000, <<>>)
    IN  SearchContent([a EXCEPT !.offset = offset], found.results)[1].body

\* C18: the pages of a search at the offsets 0, limit, 2*limit, ... hold no
\* survey id twice, and the next_offset of a page is null exactly when no
\* result lies beyond the page, and greater than the offset of the page
\* otherwise (null is written -1).
C18_PagesAdvance ==
    lastCall.name = "search_surveys" =>
        LET a == lastCall.arguments
            page == lastCall.content[1].body
            beyond == page.pagination.total_results > a.offset + a.limit
        IN  /\ page = PageAt(a.offset)
            /\ (page.pagination.next_offset = -1) <=> ~beyond
            /\ beyond => page.pagination.next_offset > a.offset
            /\ a.offset % a.limit = 0 =>
                  /\ Cardinality(IdsOf(page.surveys)) = Len(page.surveys)
                  /\ \A k \in 0..((a.offset \div a.limit) - 1) :
                        IdsOf(PageAt(k * a.limit).surveys) \cap IdsOf(page.surveys) = {}

\* the second page of two surveys of a catalog of three was served, after
\* a first page that announced it
C18_Witness ==
    /\ lastCall.name = "search_surveys"
    /\ lastCall.arguments.limit = 2
    /\ lastCall.arguments.offset = 2
    /\ Len(lastCall.content[1].body.surveys) = 1
    /\ lastCall.content[1].body.pagination.next_offset = -1
    /\ PageAt(0).pagination.next_offset = 2

----------------------------------------------------------------------------
(* Properties of the fallback of the catalog *)

\* C19: when the index is unreachable at startup, initialize completes with
\* the client connected and a catalog that is not empty (the scanned
\* surveys, or the demo surveys with demo_mode set), and the requests for
\* the catalog are answered from it.
C19_IndexFaultStillServes ==
    (startup.index = "unreachable" /\ startup.pc # "scan") =>
        /\ startup.pc = "done"
        /\ startup.is_connected
        /\ backend \in {"scan", "demo"}
        /\ startup.demo_mode <=> backend = "demo"
        /\ DOMAIN available_surveys # {}
        /\ lastCall.name = "search_surveys" =>
              IdsOf(PageAt(0).surveys) \subseteq DOMAIN available_surveys
        /\ (/\ lastCall.name = "get_survey_info"
            /\ lastCall.arguments.survey_id \in DOMAIN available_surveys) =>
              lastCall.content[1].body.id = lastCall.arguments.survey_id

----------------------------------------------------------------------------
(* Properties of the sessions that are only planned *)

\* the sessions started with auto_execute = false: in SpecPlanned they are
\* the sessions for every 8000th inline, an instruction that parses into two
\* tasks
OnlyPlanned(sid) == sessions[sid].instruction = EveryInline(8000)

\* C20: a session started with auto_execute = false is planning until its
\* plan is made and idle from then on; none of its tasks is ever started,
\* whatever agent tools are called and whatever other sessions are started.
C20_PlannedSessionStaysIdle ==
    \A sid \in DOMAIN sessions :
        OnlyPlanned(sid) =>
            /\ sessions[sid].state = (IF HasWorker(sid) THEN "planning" ELSE "idle")
            /\ \A w \in 1..Len(workers) :
                  workers[w].sid = sid => workers[w].pc = "plan" /\ ~workers[w].auto
            /\ sessions[sid].state = "idle" => Len(sessions[sid].tasks) = 2
            /\ executed[sid] = <<>>
            /\ \A i \in 1..Len(sessions[sid].tasks) :
                  sessions[sid].tasks[i].status = "pending"

\* a resume of a planned session of two tasks was refused; the session is
\* idle while the session started after it runs its task
C20_Witness ==
    /\ lastCall.name = "agent_resume"
    /\ lastCall.arguments.session_id = 1
    /\ "error" \in DOMAIN lastCall.content[1].body
    /\ Len(sessions) = 2
    /\ OnlyPlanned(1)
    /\ sessions[1].state = "idle" /\ Len(sessions[1].tasks) = 2
    /\ ~OnlyPlanned(2)
    /\ executed[2] # <<>>

----------------------------------------------------------------------------
(* Properties of the instructions that cannot be planned *)

\* the session was started with an instruction that matches no rule of the
\* grammar, or whose candidate lines all lie outside the range of the axis
YieldsNoTasks(sid) == sessions[sid].instruction \in {NoPlan, OutsideInline, ZeroSpacing}

\* C21: a session whose instruction yields no task is planning until the
\* parser has run and in state error from then on; its task list stays empty
\* and no extraction is ever started for it.
C21_EmptyPlanFails ==
    \A sid \in DOMAIN sessions :
        YieldsNoTasks(sid) =>
            /\ sessions[sid].state = (IF HasWorker(sid) THEN "planning" ELSE "error")
            /\ \A w \in 1..Len(workers) : workers[w].sid = sid => workers[w].pc = "plan"
            /\ sessions[sid].tasks = <<>>
            /\ executed[sid] = <<>>

C21_Witness ==
    /\ Len(sessions) = 2
    /\ sessions[1].instruction = OutsideInline /\ sessions[1].state = "error"
    /\ sessions[2].instruction = NoPlan /\ sessions[2].state = "error"
    /\ lastCall.name = "agent_resume"
    /\ workers = <<>>

----------------------------------------------------------------------------
(* Properties of the responses of the agent tools *)

\* the tasks of session sid whose result holds the bytes of an image
TasksWithImage(sid) ==
    {i \in 1..Len(sessions[sid].tasks) :
        /\ sessions[sid].tasks[i].status = "completed"
        /\ "image_data" \in DOMAIN sessions[sid].tasks[i].result}

\* C22: a response of agent_get_status or agent_get_results is one text
\* block without image bytes: the status holds no result at all, and the
\* summary of every completed task is its result without image_data.
C22_NoImageBytesInAgentResponses ==
    lastCall.name \in {"agent_get_status", "agent_get_results"} =>
        /\ Len(lastCall.content) = 1
        /\ lastCall.content[1].type = "text"
        /\ LET body == lastCall.content[1].body
           IN  /\ "image_data" \notin DOMAIN body
               /\ "completed_tasks" \in DOMAIN body =>
                     /\ lastCall.name = "agent_get_results"
                     /\ \A j \in 1..Len(body.completed_tasks) :
                           /\ "result" \notin DOMAIN body.completed_tasks[j]
                           /\ "image_data" \notin
                                 DOMAIN body.completed_tasks[j].result_summary

C22_Witness ==
    /\ lastCall.name = "agent_get_results"
    /\ "completed_tasks" \in DOMAIN lastCall.content[1].body
    /\ Len(lastCall.content[1].body.completed_tasks) = 1
    /\ lastCall.content[1].body.completed_tasks[1].result_summary.image_format = "PNG"
    /\ TasksWithImage(lastCall.content[1].body.session_id) = {1}

----------------------------------------------------------------------------
(* Properties of the chat proxy *)

\* C23: one streaming chat request makes at most 10 requests to the LLM, and
\* when its event stream has ended, the last event is "done" after an
\* assistant message without tool_use block, or else "error" after the
\* tenth iteration.
C23_StreamEndsWithDoneOrError ==
    /\ chat.llm_calls <= max_tool_iterations
    /\ chat.pc = "closed" =>
          \/ chat.last = "done" /\ chat.tool_uses = 0
          \/ /\ chat.last = "error"
             /\ chat.iteration = max_tool_iterations
             /\ chat.tool_uses > 0

----------------------------------------------------------------------------
(* Properties of the event loop *)

\* an extraction of an agent task is in progress
ExtractionInProgress == \E w \in 1..Len(workers) : workers[w].pc \in {"exec", "draw"}

\* C24: while an extraction or the drawing of an image is in progress, a
\* request for the status can be served.
C24_ServesDuringExtraction == ExtractionInProgress => ENABLED LoopStatusRequest

----------------------------------------------------------------------------
(* Properties of the router on the other tools *)

\* the response is the message of the router
IsRerouted(content) ==
    /\ Len(content) = 1
    /\ content[1].type = "text"
    /\ "detected_pattern" \in DOMAIN content[1].body

\* C25: a request to a tool that is not an image tool is never rerouted: the
\* response is not the message of the router, and a session is only created
\* by agent_start_extraction itself, which answers with the new session in
\* state planning.
C25_OtherToolsAreNotRerouted ==
    [][(RequestServed /\ lastCall'.name \notin SingleExtractionTools) =>
          /\ ~IsRerouted(lastCall'.content)
          /\ IF lastCall'.name = "agent_start_extraction"
             THEN /\ Len(sessions') = Len(sessions) + 1
                  /\ lastCall'.content[1].body.status = "planning"
                  /\ sessions'[Len(sessions')].instruction = lastCall'.arguments.instruction
             ELSE Len(sessions') = Len(sessions)]_vars

C25_Witness ==
    /\ lastCall.name = "agent_start_extraction"
    /\ BulkContext(lastCall.arguments.instruction)
    /\ Len(sessions) = 2
    /\ ~IsRerouted(lastCall.content)

----------------------------------------------------------------------------
(* Properties of the life cycle of a session *)

ListedTransitions ==
    {<<"planning", "idle">>, <<"planning", "running">>, <<"running", "paused">>,
     <<"paused", "running">>, <<"running", "completed">>}

\* C26: every change of the state of a session is planning to idle,
\* planning to running, running to paused, paused to running, running to
\* completed, or a change to error.
C26_OnlyListedTransitions ==
    [][\A sid \in DOMAIN sessions :
          sessions'[sid].state # sessions[sid].state =>
              \/ <<sessions[sid].state, sessions'[sid].state>> \in ListedTransitions
              \/ sessions'[sid].state = "error"]_vars

----------------------------------------------------------------------------
(* Properties of a paused session *)

\* C27: while a session is paused no task of it is started: the only change
\* of a task is that the one in flight finishes, and the session runs again
\* only by an agent_resume that is accepted.
C27_NoTaskStartsWhilePaused ==
    [][\A sid \in DOMAIN sessions :
          sessions[sid].state = "paused" =>
              /\ executed'[sid] = executed[sid]
              /\ \A i \in 1..Len(sessions[sid].tasks) :
                    sessions'[sid].tasks[i].status # sessions[sid].tasks[i].status =>
                        /\ sessions[sid].tasks[i].status = "running"
                        /\ sessions'[sid].tasks[i].status \in Terminal
              /\ sessions'[sid].state = "running" =>
                    /\ RequestServed
                    /\ lastCall'.name = "agent_resume"
                    /\ "status" \in DOMAIN lastCall'.content[1].body]_vars

\* a session was paused during its first task, the task has finished and the
\* loop waits before the second
C27_Witness ==
    \E w \in 1..Len(workers) :
        /\ workers[w].pc = "wait" /\ workers[w].i = 2
        /\ sessions[workers[w].sid].state = "paused"
        /\ sessions[workers[w].sid].tasks[1].status \in Terminal
        /\ sessions[workers[w].sid].tasks[2].status = "pending"
        /\ executed[workers[w].sid] = <<1>>

----------------------------------------------------------------------------
(* Properties of the execution loops *)

\* the coroutines that are in, or about to enter, _execute_tasks for session
\* sid
LoopsOf(sid) == {w \in 1..Len(workers) : workers[w].sid = sid /\ workers[w].pc # "plan"}

\* C28: at most one coroutine works on a session, no task of a session is
\* started twice, and at most one task of a session is running.
C28_OneLoopPerSession ==
    \A sid \in DOMAIN sessions :
        /\ Cardinality(LoopsOf(sid)) <= 1
        /\ \A j, k \in 1..Len(executed[sid]) :
              executed[sid][j] = executed[sid][k] => j = k
        /\ Cardinality({w \in LoopsOf(sid) : workers[w].pc = "exec"}) <= 1

----------------------------------------------------------------------------
(* Properties of the counters of a session *)

CountStatus(sid, status) ==
    Cardinality({i \in 1..Len(sessions[sid].tasks) : sessions[sid].tasks[i].status = status})

\* C29: the counters of a session are the numbers of its tasks that are
\* completed and that failed, so that the pending count of get_status is
\* not negative.
C29_CountersMatchTasks ==
    \A sid \in DOMAIN sessions :
        /\ sessions[sid].completed_count = CountStatus(sid, "completed")
        /\ sessions[sid].failed_count = CountStatus(sid, "failed")
        /\ Len(sessions[sid].tasks) - sessions[sid].completed_count
              - sessions[sid].failed_count >= 0

----------------------------------------------------------------------------
(* Properties of the router on requests for one line *)

\* C30: a request to an image tool without instruction, with one selector
\* and with or without a sample range, is executed and not rerouted: no
\* session is started for it.
C30_SingleLineIsDirect ==
    [][(RequestServed /\ lastCall'.name \in SingleExtractionTools
          /\ lastCall'.arguments.instruction = <<>>) =>
          /\ ~IsRerouted(lastCall'.content)
          /\ Len(sessions') = Len(sessions)]_vars

----------------------------------------------------------------------------
(* Properties of the parser *)

\* the inlines a, a + n, ... <= b within the inline range of the survey
ExpectedInlines(survey, n, a, b) ==
    SelectSeq(RangeIncl(a, b, n),
              LAMBDA x : survey.inline_range[1] <= x /\ x <= survey.inline_range[2])

\* C31: "every n inline from a to b", with or without "depth d1 to d2", is
\* planned as the inlines a, a + n, ... <= b inside the inline range, in
\* ascending order, each with the depth range [d1, d2] (the sample range of
\* the survey when none is given); planning fails only when there is no
\* such inline.
C31_EveryInlineIsPlanned ==
    \A sid \in DOMAIN sessions :
        \A n \in Spacings, a \in LineEnds, b \in LineEnds, depth \in Depths :
            (/\ a <= b
             /\ sessions[sid].instruction = EveryInlineDepth(n, a, b, depth)
             /\ sessions[sid].state # "planning") =>
                LET survey == available_surveys[sessions[sid].survey_id]
                    lines == ExpectedInlines(survey, n, a, b)
                    range == IF depth = <<>> THEN survey.sample_range ELSE depth
                IN  IF lines = <<>>
                    THEN sessions[sid].state = "error" /\ sessions[sid].tasks = <<>>
                    ELSE /\ sessions[sid].state = "idle"
                         /\ Len(sessions[sid].tasks) = Len(lines)
                         /\ \A i \in 1..Len(lines) :
                               /\ sessions[sid].tasks[i].type = "inline"
                               /\ sessions[sid].tasks[i].number = lines[i]
                               /\ sessions[sid].tasks[i].depth_range = range

----------------------------------------------------------------------------
(* The LRU cache on its own: get, set and invalidate_all at any time *)

CacheSize == 2

\* one key more than the cache holds
CacheKeys == 1..(CacheSize + 1)

\* a value that names the time it was stored
ValueAt(t) == [set_at |-> t]

\* the keys in the order of their last use, the last one used last
MoveToEnd(uses, key) == Append(SelectSeq(uses, LAMBDA k : k # key), key)

KeysOf(entries) == {entries[i].key : i \in 1..Len(entries)}

CacheCall(name, key, content, uses) ==
    [name |-> name, arguments |-> [key |-> key], io |-> "ok", at |-> now,
     content |-> content, isError |-> FALSE, ops |-> uses, flip |-> FALSE]

CacheUnchanged ==
    UNCHANGED <<sessions, active_session_id, workers, backend, now, executed,
                vds_handles, startup, chat, mcp>>

CacheGet ==
    \E key \in CacheKeys :
      \E out \in {lru_get(search_cache, key, now)} :
        /\ out.cache.hits + out.cache.misses <= MaxLookups
        /\ search_cache' = out.cache
        /\ lastCall' = CacheCall("get", key,
                                 IF out.hit THEN <<out.value>> ELSE <<>>,
                                 IF out.hit THEN MoveToEnd(lastCall.ops, key)
                                 ELSE lastCall.ops)
        /\ CacheUnchanged

CacheSet ==
    \E key \in CacheKeys :
        /\ search_cache' = lru_set(search_cache, key, ValueAt(now), now)
        /\ lastCall' = CacheCall("set", key, <<>>, MoveToEnd(lastCall.ops, key))
        /\ CacheUnchanged

CacheInvalidateAll ==
    /\ search_cache' = lru_invalidate_all(search_cache)
    /\ lastCall' = CacheCall("invalidate_all", 0, <<>>, lastCall.ops)
    /\ CacheUnchanged

InitCache ==
    /\ sessions = <<>>
    /\ active_session_id = 0
    /\ workers = <<>>
    /\ backend = "es"
    /\ search_cache = LRUCache(CacheSize, SearchCacheTTL)
    /\ now = 0
    /\ lastCall = [name |-> "none", arguments |-> <<>>, io |-> "ok", at |-> 0,
                   content |-> <<>>, isError |-> FALSE, ops |-> <<>>, flip |-> FALSE]
    /\ executed = <<>>
    /\ vds_handles = HandlesAfterInitialize(backend)
    /\ startup = Initialized(backend)
    /\ chat = ChatStarted
    /\ mcp = MCPStarted

NextCache == CacheGet \/ CacheSet \/ CacheInvalidateAll \/ Tick

SpecCache == InitCache /\ [][NextCache]_vars

\* C32: after any sequence of get, set and invalidate_all the cache holds at
\* most max_size entries, no key twice, and the value map and the timestamp
\* map have the same keys.
C32_SizeAndKeySets ==
    /\ Len(search_cache.cache) <= search_cache.max_size
    /\ Cardinality(KeysOf(search_cache.cache)) = Len(search_cache.cache)
    /\ DOMAIN search_cache.timestamps = KeysOf(search_cache.cache)

\* a full cache after an entry made room for another
C32_Witness ==
    /\ Len(search_cache.cache) = search_cache.max_size
    /\ lastCall.name = "set"
    /\ \E k \in CacheKeys :
         /\ k \notin KeysOf(search_cache.cache)
         /\ \E i \in 1..Len(lastCall.ops) : lastCall.ops[i] = k

\* the key of `keys` whose last use is the oldest
LeastRecentlyUsed(uses, keys) ==
    uses[MinOf({i \in 1..Len(uses) : uses[i] \in keys})]

\* C33: set of a new key into a full cache evicts exactly one entry, the one
\* used least recently (a get hit and a set are both a use); set of a key
\* that is present evicts nothing.
C33_EvictsLeastRecentlyUsed ==
    [][(lastCall'.name = "set" /\ now' = now) =>
         LET key == lastCall'.arguments.key
             before == KeysOf(search_cache.cache)
             after == KeysOf(search_cache'.cache)
         IN  IF key \in before
             THEN after = before
             ELSE IF Len(search_cache.cache) >= search_cache.max_size
             THEN after = (before \ {LeastRecentlyUsed(lastCall.ops, before)})
                             \cup {key}
             ELSE after = before \cup {key}]_vars

\* a set made room in a full cache after a get hit had changed the order
C33_Witness ==
    /\ lastCall.name = "set"
    /\ now = 0
    /\ search_cache.hits > 0
    /\ search_cache.misses = 0
    /\ Len(search_cache.cache) = search_cache.max_size
    /\ \E i \in 1..Len(lastCall.ops) : lastCall.ops[i] \notin KeysOf(search_cache.cache)
    /\ search_cache.cache[1].key # lastCall.ops[1]

\* C34: get returns no entry whose age is ttl_seconds or more; such an entry
\* is removed and the call counts as a miss.
C34_ExpiredIsAMiss ==
    [][(lastCall'.name = "get" /\ now' = now) =>
         LET key == lastCall'.arguments.key
             i == IndexOfKey(search_cache.cache, key)
         IN  /\ lastCall'.content # <<>> =>
                  /\ i # 0
                  /\ lastCall'.content[1] = search_cache.cache[i].value
                  /\ now - lastCall'.content[1].set_at < search_cache.ttl_seconds
             /\ (i # 0 /\ now - search_cache.cache[i].value.set_at
                            >= search_cache.ttl_seconds) =>
                  /\ lastCall'.content = <<>>
                  /\ key \notin KeysOf(search_cache'.cache)
                  /\ search_cache'.misses = search_cache.misses + 1
                  /\ search_cache'.hits = search_cache.hits]_vars

\* a get, ttl_seconds after the only key in use was stored, found nothing
C34_Witness ==
    /\ lastCall.name = "get"
    /\ lastCall.content = <<>>
    /\ lastCall.ops = <<lastCall.arguments.key>>
    /\ lastCall.at >= search_cache.ttl_seconds
    /\ search_cache.cache = <<>>
    /\ search_cache.misses = 1

----------------------------------------------------------------------------
(* MountHealthChecker.wait_for_mount_ready *)

MaxRetries == 3

retry_delay_seconds == 2

\* a checker with some max_retries, about to wait for a mount path
Waiting(mount_path, max_retries) ==
    [pc |-> "check", path |-> mount_path, max_retries |-> max_retries,
     retry_count |-> 0, checks |-> 0, slept |-> <<>>, status |-> "none",
     fs |-> [stat |-> "exists", listdir |-> "ok"], pathlib |-> "raises"]

WaitUnchanged ==
    UNCHANGED <<sessions, active_session_id, workers, backend, search_cache, now,
                lastCall, executed, vds_handles, chat, mcp>>

\* wait_for_mount_ready up to its return or its sleep: the health check on
\* what the file system does this time
WaitCheck ==
    /\ startup.pc = "check"
    /\ \E fs \in FSBehaviours, pathlib \in PathlibVersions :
         \E status \in {check_mount_health(fs, pathlib)} :
           startup' = [startup EXCEPT
                         !.fs = fs, !.pathlib = pathlib,
                         !.checks = @ + 1,
                         !.status = status,
                         !.pc = IF status \in {"blocked", "raised"} THEN status
                                ELSE IF status = "healthy" THEN "returned"
                                ELSE IF startup.retry_count >= startup.max_retries
                                THEN "returned"
                                ELSE "sleep"]
    /\ WaitUnchanged

\* asyncio.sleep(delay), then the recursive call
WaitRetry ==
    /\ startup.pc = "sleep"
    /\ startup' = [startup EXCEPT
                     !.slept = Append(@, retry_delay_seconds * (2 ^ startup.retry_count)),
                     !.retry_count = @ + 1,
                     !.pc = "check"]
    /\ WaitUnchanged

InitWait ==
    /\ sessions = <<>>
    /\ active_session_id = 0
    /\ workers = <<>>
    /\ backend = "es"
    /\ search_cache = LRUCache(SearchCacheMaxSize, SearchCacheTTL)
    /\ now = 0
    /\ lastCall = [name |-> "none", arguments |-> <<>>, io |-> "ok", at |-> 0,
                   content |-> <<>>, isError |-> FALSE, ops |-> <<>>, flip |-> FALSE]
    /\ executed = <<>>
    /\ vds_handles = HandlesAfterInitialize(backend)
    /\ \E mount_path \in MountPaths, max_retries \in 0..MaxRetries :
         startup = Waiting(mount_path, max_retries)
    /\ chat = ChatStarted
    /\ mcp = MCPStarted

NextWait == WaitCheck \/ WaitRetry

SpecWait == InitWait /\ [][NextWait]_vars

\* C35: wait_for_mount_ready makes at most max_retries + 1 health checks and
\* always comes to its return: at the first healthy check, or after the
\* check number max_retries + 1 with the last result and retry_count =
\* max_retries; before retry number k + 1 it sleeps retry_delay * 2^k.
C35_WaitTerminates ==
    /\ startup.checks <= startup.max_retries + 1
    /\ startup.pc \in {"check", "sleep", "returned"}
    /\ \A k \in 1..Len(startup.slept) :
         startup.slept[k] = retry_delay_seconds * (2 ^ (k - 1))
    /\ startup.pc = "returned" =>
         /\ startup.retry_count = startup.checks - 1
         /\ startup.status = "healthy" \/ startup.retry_count = startup.max_retries

----------------------------------------------------------------------------
(* Opening a volume that fails *)

\* the outcomes of openvds.open and of the read: as IOOutcomes, and the open
\* that returns no handle
OpenOutcomes == IOOutcomes \cup {"open_none"}

ReopenRequest ==
    \E c \in OpenCalls, io \in OpenOutcomes : CallTool(c.name, c.arguments, io, <<>>)

NextReopen == OpenStart \/ ReopenRequest \/ Coroutines(OpenOutcomes, {FALSE})

SpecReopen == Init /\ [][NextReopen]_vars

\* C36: after a request whose open of the volume failed (openvds.open raised
\* or returned no handle) the handle cache has no entry for the survey.
C36_FailedOpenLeavesNoEntry ==
    [][(/\ RequestServed
        /\ lastCall'.name \in SingleExtractionTools
        /\ \E i \in 1..Len(lastCall'.ops) : lastCall'.ops[i] = "open"
        /\ lastCall'.io \in {"open_failed", "open_none"})
       => vds_handles'[lastCall'.arguments.survey_id] = 0]_vars

----------------------------------------------------------------------------
(* Properties of the active session *)

\* C37: once a session was started, the active session is the one started
\* last, and get_status, pause_session, resume_session and get_results
\* without a session_id do what they do with the id of that session, also
\* while earlier sessions run.
C37_DefaultIsLatestSession ==
    sessions # <<>> =>
        /\ active_session_id = Len(sessions)
        /\ get_status(0) = get_status(Len(sessions))
        /\ pause_session(0) = pause_session(Len(sessions))
        /\ resume_session(0) = resume_session(Len(sessions))
        /\ get_results(0) = get_results(Len(sessions))

\* agent_pause without a session_id paused the second session while the
\* first one was running
C37_Witness ==
    /\ Len(sessions) = 2
    /\ sessions[1].state = "running"
    /\ sessions[2].state = "paused"
    /\ lastCall.name = "agent_pause"
    /\ lastCall.arguments.session_id = 0
    /\ ~lastCall.isError

----------------------------------------------------------------------------
(* Progress of a session under fair scheduling *)

\* one session that runs at once is started; it is paused and resumed at
\* will, with and without its session_id
FairStart ==
    /\ sessions = <<>>
    /\ \E c \in {StartCall("sepia", EveryInline(8000), TRUE)} :
          CallTool(c.name, c.arguments, "ok", <<>>)

FairRequest == \E c \in PauseCalls : CallTool(c.name, c.arguments, "ok", <<>>)

\* a step of the coroutine of session s: every extraction returns or raises
SessionStep(s) ==
    \E w \in 1..Len(workers) :
        /\ workers[w].sid = s
        /\ \/ WorkerPlan(w)
           \/ WorkerWake(w)
           \/ \E raised \in BOOLEAN : WorkerFinish(w, "ok", raised)
           \/ WorkerNext(w)

\* agent_resume on session s while it is paused
ResumePaused(s) ==
    /\ s \in DOMAIN sessions
    /\ sessions[s].state = "paused"
    /\ CallTool("agent_resume", [session_id |-> s], "ok", <<>>)

NextFair == FairStart \/ FairRequest \/ Coroutines({"ok"}, BOOLEAN)

\* The event loop runs every coroutine that is ready: a step that stays
\* possible is taken. A paused session is resumed.
SpecFair ==
    /\ Init
    /\ [][NextFair]_vars
    /\ WF_vars(SessionStep(1))
    /\ WF_vars(ResumePaused(1))

IsRunning(s) == s \in DOMAIN sessions /\ sessions[s].state = "running"
IsPaused(s) == s \in DOMAIN sessions /\ sessions[s].state = "paused"
IsCompleted(s) == s \in DOMAIN sessions /\ sessions[s].state = "completed"

\* C38: a session that was planned and set running is completed in the end,
\* when every coroutine that is ready runs, every extraction returns and
\* every pause is followed by a resume.
C38_EventuallyCompleted == IsRunning(1) ~> IsCompleted(1)

\* C38 (amended): the same for a session that is paused only finitely many
\* times.
C38_CompletedUnlessPausedForever ==
    (<>[]~IsPaused(1)) => (IsRunning(1) ~> IsCompleted(1))

\* a session that was paused before its second task is completed
C38_Witness ==
    /\ IsCompleted(1)
    /\ executed[1] = <<1, 2>>
    /\ lastCall.name = "agent_resume"
    /\ ~lastCall.isError

----------------------------------------------------------------------------
(* The UI backend: the shared MCPClient (mcp_client.py)                    *)
(* A caller is at "idle" (no call yet), "spawn" (in connect, awaiting      *)
(* create_subprocess_exec), "wait" (in readline, the buffer empty),        *)
(* "woken" (in readline, data arrived, not yet run) or "client" (between   *)
(* two calls on the client it holds).                                      *)

MaxMessages == 3

\* _send_request returns the line it read to caller c; for "initialize"
\* connect sets is_connected and get_mcp_client returns the client
Returned(m, c, id) ==
    IF m.callers[c].method = "initialize"
    THEN [m EXCEPT !.is_connected = TRUE,
                   !.callers[c].got = id,
                   !.callers[c].pc = "client",
                   !.callers[c].has_client = TRUE,
                   !.callers[c].handshaken = TRUE]
    ELSE [m EXCEPT !.callers[c].got = id, !.callers[c].pc = "client"]

\* an exception leaves _send_request; in connect the process is killed and
\* the exception leaves get_mcp_client
Raised(m, c, error) ==
    IF m.callers[c].method = "initialize"
    THEN [m EXCEPT !.process = "killed",
                   !.callers[c].pc = "idle",
                   !.callers[c].error = error]
    ELSE [m EXCEPT !.callers[c].pc = "client", !.callers[c].error = error]

\* process.stdout.readline() of caller c: the first line of the buffer;
\* with an empty buffer the caller waits, unless another coroutine waits
\* already (RuntimeError of the StreamReader)
StreamRead(m, c) ==
    IF m.stdout # <<>>
    THEN Returned([m EXCEPT !.stdout = Tail(@)], c, Head(m.stdout))
    ELSE IF m.waiter # "none"
    THEN Raised(m, c, "RuntimeError")
    ELSE [m EXCEPT !.waiter = c, !.callers[c].pc = "wait"]

\* _send_request of caller c up to its first suspension
_send_request(m, c, method) ==
    LET id == m.message_id + 1
        sent == [m EXCEPT !.callers[c].method = method,
                          !.callers[c].id = id,
                          !.callers[c].got = 0,
                          !.callers[c].error = "none"]
    IN  IF m.process = "none"
        THEN Raised([sent EXCEPT !.callers[c].id = 0], c, "Not connected")
        ELSE IF m.process = "killed"
        THEN Raised([sent EXCEPT !.message_id = id], c, "Server closed connection")
        ELSE StreamRead([sent EXCEPT !.message_id = id, !.inbox = @ \cup {id}], c)

ClientUnchanged ==
    UNCHANGED <<sessions, active_session_id, workers, backend, search_cache, now,
                lastCall, executed, vds_handles, startup, chat>>

\* get_mcp_client up to its return or to the first suspension of connect
GetMcpClient(c) ==
    /\ mcp.callers[c].pc = "idle"
    /\ mcp' = IF ~mcp.created
              THEN [mcp EXCEPT !.created = TRUE, !.callers[c].pc = "spawn"]
              ELSE [mcp EXCEPT !.callers[c].pc = "client",
                               !.callers[c].has_client = TRUE,
                               !.callers[c].handshaken = mcp.is_connected]
    /\ ClientUnchanged

\* create_subprocess_exec returns the process or raises; connect goes on to
\* the initialize request
ConnectSpawned(c) ==
    /\ mcp.callers[c].pc = "spawn"
    /\ \E ok \in BOOLEAN :
         mcp' = IF ok
                THEN _send_request([mcp EXCEPT !.process = "running"], c, "initialize")
                ELSE [mcp EXCEPT !.callers[c].pc = "idle",
                                 !.callers[c].error = "spawn failed"]
    /\ ClientUnchanged

\* a caller that holds a client calls a tool on it
ClientCall(c) ==
    /\ mcp.callers[c].pc = "client"
    /\ mcp.message_id < MaxMessages
    /\ mcp' = _send_request(mcp, c, "tools/call")
    /\ ClientUnchanged

\* the waiting caller runs again after data arrived
ClientWake(c) ==
    /\ mcp.callers[c].pc = "woken"
    /\ mcp' = StreamRead(mcp, c)
    /\ ClientUnchanged

\* the server answers one of the requests it has, in any order; the line
\* arrives in the buffer and the waiting caller is made ready
ServerRespond ==
    /\ mcp.process = "running"
    /\ \E id \in mcp.inbox :
         LET arrived == [mcp EXCEPT !.inbox = @ \ {id}, !.stdout = Append(@, id)]
         IN  mcp' = IF mcp.waiter = "none" THEN arrived
                    ELSE [arrived EXCEPT !.waiter = "none",
                                         !.callers[mcp.waiter].pc = "woken"]
    /\ ClientUnchanged

NextClient ==
    \/ \E c \in Callers :
          GetMcpClient(c) \/ ConnectSpawned(c) \/ ClientCall(c) \/ ClientWake(c)
    \/ ServerRespond

SpecClient == Init /\ [][NextClient]_vars

\* C39: every caller of the shared client gets the response whose id is the
\* id of the request it sent.
C39_ResponseMatchesRequest ==
    \A c \in Callers :
        mcp.callers[c].got # 0 => mcp.callers[c].got = mcp.callers[c].id

\* C40: every client that get_mcp_client returned had completed the
\* initialize handshake.
C40_ReturnedClientIsConnected ==
    \A c \in Callers : mcp.callers[c].has_client => mcp.callers[c].handshaken

====
